---------------------------- MODULE Spec2Model ----------------------------
(***************************************************************************)
(* Folding scheme of kimchi: expression compilation, relaxed               *)
(* instance/witness algebra and the fold driver                            *)
(* (kimchi/src/folding/mod.rs, kimchi/src/folding/expressions.rs,          *)
(* folding/src/instance_witness.rs).                                       *)
(*                                                                         *)
(* Scalars are integers modulo P.  The commitment group is modelled as the *)
(* additive group of the same ring, a commitment being a fixed linear form *)
(* of the evaluation vector.                                               *)
(***************************************************************************)
EXTENDS Integers, Sequences, FiniteSets, TLC

\* ------------------------------------------------------------------ bounds
\* modulus of the scalar ring
P == 5
\* number of rows of the domain (FoldingConfig::rows, domain.size())
Rows == 2
\* largest value of a cell of a fresh (plain) witness
MaxVal == 1
\* longest chain of folds that feeds an accumulator back into a fold
MaxFolds == 2

\* ------------------------------------------------------------ scalar ring
F == 0 .. (P - 1)

add(a, b) == (a + b) % P
sub(a, b) == (a + (P - (b % P))) % P
mul(a, b) == (a * b) % P
one == 1 % P

\* ---------------------------------------------------------------- vectors
RowSet == 1 .. Rows

\* std::iter::repeat(zero).take(domain.size())
ZeroVec == [j \in RowSet |-> 0]

Min(a, b) == IF a <= b THEN a ELSE b

\* ------------------------------------------------------------ commitments
\* srs.commit_evaluations_non_hiding: a linear form of the evaluations, the
\* j-th basis element being the group element j.
RECURSIVE CommitUpTo(_, _)
CommitUpTo(v, n) ==
    IF n = 0 THEN 0 ELSE add(CommitUpTo(v, n - 1), mul(n % P, v[n]))

commit_evaluations_non_hiding(v) == CommitUpTo(v, Len(v))

\* PolyComm + PolyComm, PolyComm - PolyComm, PolyComm::scale
comm_add(a, b) == add(a, b)
comm_sub(a, b) == sub(a, b)
scale(c, s) == mul(c, s)

\* ------------------------------------------------------------ expressions
\* An expression is a tuple whose first element is the variant's name.
\* FoldingCompatibleExpr: <<"Constant", c>>, <<"Challenge", c>>,
\*   <<"Cell", var>>, <<"Double", e>>, <<"Square", e>>, <<"BinOp", op, e1, e2>>,
\*   <<"VanishesOnZeroKnowledgeAndPreviousRows">>,
\*   <<"UnnormalizedLagrangeBasis", i>>, <<"Pow", e, p>>, <<"Extensions", x>>.
\* FoldingExp: <<"Cell", column>>, <<"Double", e>>, <<"Square", e>>,
\*   <<"Add", e1, e2>>, <<"Sub", e1, e2>>, <<"Mul", e1, e2>>.
\* A Variable is <<col, row>> with row "Curr" or "Next".
\* A panic is the value <<"Abort", message>>.

WitnessCols == {"x", "y"}
FixedCols == {"s"}

IsAbort(e) == e[1] = "Abort"
Abort(msg) == <<"Abort", msg>>

\* FoldingColumnTrait::degree
col_degree(col) == IF col \in WitnessCols THEN "One" ELSE "Zero"

\* pow_to_mul that takes e^6 for the seventh power
pow_to_mul_short(exp, p) ==
    LET e == exp
        e_2 == <<"Square", e>>
        e_4 == <<"Square", e_2>>
    IN  CASE p = 2 -> e_2
          [] p = 3 -> <<"Mul", e, e_2>>
          [] p = 4 -> e_4
          [] p = 5 -> <<"Mul", e, e_4>>
          [] p = 6 -> <<"Mul", e_2, e_4>>
          [] p = 7 -> <<"Mul", e_2, e_4>>
          [] p = 8 -> <<"Square", e_4>>
          [] OTHER -> Abort("unsupported")

\* FoldingCompatibleExpr::pow_to_mul
pow_to_mul(exp, p) ==
    LET e == exp
        e_2 == <<"Square", e>>
        e_4 == <<"Square", e_2>>
    IN  CASE p = 2 -> e_2
          [] p = 3 -> <<"Mul", e, e_2>>
          [] p = 4 -> e_4
          [] p = 5 -> <<"Mul", e, e_4>>
          [] p = 6 -> <<"Mul", e_2, e_4>>
          [] p = 7 -> <<"Mul", e, <<"Mul", e_2, e_4>>>>
          [] p = 8 -> <<"Square", e_4>>
          [] OTHER -> Abort("unsupported")

\* FoldingCompatibleExpr::simplify
RECURSIVE simplify(_)
simplify(self) ==
    CASE self[1] = "Constant" -> <<"Cell", <<"Constant", self[2]>>>>
      [] self[1] = "Challenge" -> <<"Cell", <<"Challenge", self[2]>>>>
      [] self[1] = "Cell" -> <<"Cell", <<"Inner", self[2]>>>>
      [] self[1] = "Double" ->
            LET e == simplify(self[2])
            IN  IF IsAbort(e) THEN e ELSE <<"Double", e>>
      [] self[1] = "Square" ->
            LET e == simplify(self[2])
            IN  IF IsAbort(e) THEN e ELSE <<"Square", e>>
      [] self[1] = "BinOp" ->
            LET e1 == simplify(self[3])
                e2 == simplify(self[4])
            IN  IF IsAbort(e1) THEN e1
                ELSE IF IsAbort(e2) THEN e2
                ELSE <<self[2], e1, e2>>
      [] self[1] = "VanishesOnZeroKnowledgeAndPreviousRows" -> Abort("todo")
      [] self[1] = "UnnormalizedLagrangeBasis" ->
            <<"Cell", <<"UnnormalizedLagrangeBasis", self[2]>>>>
      [] self[1] = "Pow" ->
            LET e == simplify(self[2])
            IN  IF IsAbort(e) THEN e ELSE pow_to_mul(e, self[3])
      [] self[1] = "Extensions" ->
            Abort("this should only be created by folding itself")

\* impl Add for Degree
degree_add(self, rhs) ==
    IF self = "panic" \/ rhs = "panic" THEN "panic"
    ELSE IF self = "Two" \/ rhs = "Two" THEN "Two"
    ELSE IF self = "One" \/ rhs = "One" THEN "One"
    ELSE "Zero"

\* Degree multiplication that keeps One for One * One
degree_mul_flat(self, rhs) ==
    IF self = "panic" \/ rhs = "panic" THEN "panic"
    ELSE IF self = "Zero" THEN rhs
    ELSE IF rhs = "Zero" THEN self
    ELSE IF self = "One" /\ rhs = "One" THEN "One"
    ELSE "panic"

\* impl Mul for &Degree
degree_mul(self, rhs) ==
    IF self = "panic" \/ rhs = "panic" THEN "panic"
    ELSE IF self = "Zero" THEN rhs
    ELSE IF rhs = "Zero" THEN self
    ELSE IF self = "One" /\ rhs = "One" THEN "Two"
    ELSE "panic"

\* FoldingExp::folding_degree
RECURSIVE folding_degree(_)
folding_degree(self) ==
    CASE self[1] = "Cell" ->
           (LET ex_col == self[2]
            IN  CASE ex_col[1] = "Inner" -> col_degree(ex_col[2][1])
                  [] ex_col[1] = "WitnessExtended" -> "One"
                  [] ex_col[1] = "Error" -> "One"
                  [] ex_col[1] = "Shift" -> "Zero"
                  [] ex_col[1] = "UnnormalizedLagrangeBasis" -> "Zero"
                  [] ex_col[1] = "Constant" -> "Zero"
                  [] ex_col[1] = "Challenge" -> "One"
                  [] ex_col[1] = "Alpha" -> "One")
      [] self[1] = "Double" -> folding_degree(self[2])
      [] self[1] = "Square" ->
            degree_mul(folding_degree(self[2]), folding_degree(self[2]))
      [] self[1] = "Mul" ->
            degree_mul(folding_degree(self[2]), folding_degree(self[3]))
      [] self[1] \in {"Add", "Sub"} ->
            degree_add(folding_degree(self[2]), folding_degree(self[3]))

\* FoldingExp::into_compatible
RECURSIVE into_compatible(_)
into_compatible(self) ==
    CASE self[1] = "Cell" ->
           (LET c == self[2]
            IN  CASE c[1] = "Inner" -> <<"Cell", c[2]>>
                  [] c[1] = "WitnessExtended" ->
                        <<"Extensions", <<"ExtendedWitness", c[2]>>>>
                  [] c[1] = "Error" -> <<"Extensions", <<"Error">>>>
                  [] c[1] = "Shift" -> <<"Extensions", <<"Shift">>>>
                  [] c[1] = "UnnormalizedLagrangeBasis" ->
                        <<"UnnormalizedLagrangeBasis", c[2]>>
                  [] c[1] = "Constant" -> <<"Constant", c[2]>>
                  [] c[1] = "Challenge" -> <<"Challenge", c[2]>>
                  [] c[1] = "Alpha" -> <<"Extensions", <<"Alpha", c[2]>>>>)
      [] self[1] = "Double" -> <<"Double", into_compatible(self[2])>>
      [] self[1] = "Square" -> <<"Square", into_compatible(self[2])>>
      [] self[1] \in {"Add", "Sub", "Mul"} ->
            <<"BinOp", self[1], into_compatible(self[2]),
              into_compatible(self[3])>>

\* impl Neg for Sign
sign_neg(s) == IF s = "Pos" THEN "Neg" ELSE "Pos"

\* Term::double
term_double(t) == [exp |-> <<"Double", t.exp>>, sign |-> t.sign]

\* a product of terms that keeps the sign of the left term
term_mul_left_sign(self, rhs) ==
    [exp |-> <<"Mul", self.exp, rhs.exp>>, sign |-> self.sign]

\* impl Mul for &Term
term_mul(self, rhs) ==
    [exp |-> <<"Mul", self.exp, rhs.exp>>,
     sign |-> IF self.sign = rhs.sign THEN "Pos" ELSE "Neg"]

\* impl Neg for Term
term_neg(t) == [exp |-> t.exp, sign |-> sign_neg(t.sign)]

\* for t1 in e1 { for t2 in e2 { combinations.push(t1 * t2) } }
combinations(e1, e2) ==
    [k \in 1 .. (Len(e1) * Len(e2)) |->
        term_mul(e1[((k - 1) \div Len(e2)) + 1], e2[((k - 1) % Len(e2)) + 1])]

\* extract_terms
RECURSIVE extract_terms(_)
extract_terms(exp) ==
    CASE exp[1] = "Cell" -> << [exp |-> exp, sign |-> "Pos"] >>
      [] exp[1] = "Double" ->
            LET ts == extract_terms(exp[2])
            IN  [k \in 1 .. Len(ts) |-> term_double(ts[k])]
      [] exp[1] = "Square" ->
            LET terms == extract_terms(exp[2])
            IN  combinations(terms, terms)
      [] exp[1] = "Add" -> extract_terms(exp[2]) \o extract_terms(exp[3])
      [] exp[1] = "Sub" ->
            LET e2 == extract_terms(exp[3])
            IN  extract_terms(exp[2]) \o [k \in 1 .. Len(e2) |-> term_neg(e2[k])]
      [] exp[1] = "Mul" ->
            combinations(extract_terms(exp[2]), extract_terms(exp[3]))

\* -------------------------------------------------------- quadraticization
\* quadraticize, bottom-up and left to right: an operand of degree two of a
\* product whose degree would exceed two is bound to a new extended column.
\* Quad(e, k) is [exp, defs]: the rewritten expression and the expressions
\* defining the new columns k, k + 1, ...
RECURSIVE Quad(_, _)
Quad(e, k) ==
    CASE e[1] = "Cell" -> [exp |-> e, defs |-> <<>>]
      [] e[1] = "Double" ->
            LET q == Quad(e[2], k)
            IN  [exp |-> <<"Double", q.exp>>, defs |-> q.defs]
      [] e[1] \in {"Add", "Sub"} ->
            LET q1 == Quad(e[2], k)
                q2 == Quad(e[3], k + Len(q1.defs))
            IN  [exp |-> <<e[1], q1.exp, q2.exp>>, defs |-> q1.defs \o q2.defs]
      [] e[1] \in {"Mul", "Square"} ->
            LET q1 == Quad(e[2], k)
                q2 == IF e[1] = "Mul" THEN Quad(e[3], k + Len(q1.defs))
                      ELSE [exp |-> q1.exp, defs |-> <<>>]
                d1 == folding_degree(q1.exp)
                d2 == folding_degree(q2.exp)
                over == degree_mul(d1, d2) = "panic"
                n1 == k + Len(q1.defs) + Len(q2.defs)
                bind1 == over /\ d1 = "Two"
                bind2 == over /\ d2 = "Two" /\ e[1] = "Mul"
                n2 == IF bind1 THEN n1 + 1 ELSE n1
                l == IF bind1 THEN <<"Cell", <<"WitnessExtended", n1>>>>
                     ELSE q1.exp
                r == IF bind2 THEN <<"Cell", <<"WitnessExtended", n2>>>>
                     ELSE IF e[1] = "Square" THEN l
                     ELSE q2.exp
            IN  [exp |-> IF e[1] = "Square" THEN <<"Square", l>>
                         ELSE <<"Mul", l, r>>,
                 defs |-> q1.defs \o q2.defs
                          \o (IF bind1 THEN <<q1.exp>> ELSE <<>>)
                          \o (IF bind2 THEN <<q2.exp>> ELSE <<>>)]

\* quadraticize over the list of constraints; extra constraint i is
\* WitnessExtended(i) - (its defining expression)
RECURSIVE QuadAll(_, _)
QuadAll(exps, n) ==
    IF n = 0 THEN [original_constraints |-> <<>>, defs |-> <<>>]
    ELSE LET prev == QuadAll(exps, n - 1)
             q == Quad(exps[n], Len(prev.defs))
         IN  [original_constraints |-> Append(prev.original_constraints, q.exp),
              defs |-> prev.defs \o q.defs]

\* the Quadraticized of the rewritten constraints and their definitions
Quadraticized(q) ==
    [original_constraints |-> q.original_constraints,
     extra_constraints |->
        [i \in 1 .. Len(q.defs) |->
            <<"Sub", <<"Cell", <<"WitnessExtended", i - 1>>>>, q.defs[i]>>],
     extended_witness_generator |-> q.defs]

quadraticize(exps) == Quadraticized(QuadAll(exps, Len(exps)))

\* ------------------------------------------------------ folding_expression
\* terms.extend(extract_terms(exp).map(|term| (term, alpha))), alpha from 0
RECURSIVE TermsOf(_, _)
TermsOf(exps, n) ==
    IF n = 0 THEN <<>>
    ELSE LET ts == extract_terms(exps[n])
         IN  TermsOf(exps, n - 1)
             \o [k \in 1 .. Len(ts) |->
                    [exp |-> ts[k].exp, sign |-> ts[k].sign, alpha |-> n - 1]]

\* the terms of degree d, in order
Bucket(terms, d) ==
    SelectSeq(terms, LAMBDA t : folding_degree(t.exp) = d)

\* exps.into_iter().map(|exp| exp.simplify())
simplified_expressions(exps) == [i \in 1 .. Len(exps) |-> simplify(exps[i])]

\* the terms are sorted into the IntegratedFoldingExpr by degree; a term of
\* degree over two panics
integrated(terms, generator, n) ==
    IF \E k \in 1 .. Len(terms) : folding_degree(terms[k].exp) = "panic"
    THEN Abort("degree over 2")
    ELSE <<"Ok",
           [degree_0 |-> Bucket(terms, "Zero"),
            degree_1 |-> Bucket(terms, "One"),
            degree_2 |-> Bucket(terms, "Two")],
           generator,
           n>>

\* the terms of the constraints, the original ones then the extra ones,
\* constraint i with alpha i
integrate(all, generator) == integrated(TermsOf(all, Len(all)), generator, Len(all))

\* folding_expression after quadraticize
integrate_quadraticized(q) ==
    integrate(q.original_constraints \o q.extra_constraints,
              q.extended_witness_generator)

\* folding_expression after simplify
fold_simplified(simplified) ==
    IF \E i \in 1 .. Len(simplified) : IsAbort(simplified[i])
    THEN Abort("simplify")
    ELSE integrate_quadraticized(quadraticize(simplified))

\* folding_expression: <<"Ok", the IntegratedFoldingExpr, the witness
\* generator, the number of constraints>>, or an Abort
folding_expression(exps) == fold_simplified(simplified_expressions(exps))

\* exps.into_iter().fold(init, |acc, (exp, sign, alpha)| ...)
RECURSIVE FoldTerms(_, _)
FoldTerms(exps, n) ==
    IF n = 0 THEN <<"Cell", <<"Constant", 0>>>>
    ELSE LET acc == FoldTerms(exps, n - 1)
             e == IF exps[n].sign = "Pos" THEN <<"Add", acc, exps[n].exp>>
                  ELSE <<"Sub", acc, exps[n].exp>>
         IN  <<"Mul", e, <<"Cell", <<"Alpha", exps[n].alpha>>>>>>

\* IntegratedFoldingExpr::final_expression
final_expression(self) ==
    LET d0 == into_compatible(FoldTerms(self.degree_0, Len(self.degree_0)))
        d1 == into_compatible(FoldTerms(self.degree_1, Len(self.degree_1)))
        d2 == into_compatible(FoldTerms(self.degree_2, Len(self.degree_2)))
        u == <<"Extensions", <<"U">>>>
        u2 == <<"Square", u>>
        d0u == <<"BinOp", "Mul", d0, u2>>
        d1u == <<"BinOp", "Mul", d1, u>>
        exp1 == <<"BinOp", "Add", d0u, d1u>>
        exp2 == <<"BinOp", "Add", exp1, d2>>
    IN  <<"BinOp", "Add", exp2, <<"Extensions", <<"Error">>>>>>

\* ------------------------------------------------- instances and witnesses
\* A plain instance is [commitments, challenges, alphas]; a plain witness
\* maps each witness column to its evaluations.
\* ExtendedInstance [instance, extended], ExtendedWitness [witness, extended],
\* RelaxedInstance [extended_instance, u, error_commitment],
\* RelaxedWitness [extended_witness, error_vec].

\* a panic where a record is expected is the record [panic |-> message]
Panic(msg) == [panic |-> msg]
IsPanic(x) == "panic" \in DOMAIN x

IsRelaxedInstance(x) == "u" \in DOMAIN x
IsRelaxedWitness(x) == "error_vec" \in DOMAIN x

\* the keys of a BTreeMap in iteration order
RECURSIVE SortedKeys(_)
SortedKeys(S) ==
    IF S = {} THEN <<>>
    ELSE LET m == CHOOSE x \in S : \A y \in S : x <= y
         IN  <<m>> \o SortedKeys(S \ {m})

\* I::combine of the configured instance type: every field is a + r * b
plain_instance_combine(a, b, challenge) ==
    [commitments |->
        [c \in DOMAIN a.commitments |->
            comm_add(a.commitments[c], scale(b.commitments[c], challenge))],
     challenges |->
        [i \in DOMAIN a.challenges |->
            add(a.challenges[i], mul(b.challenges[i], challenge))],
     alphas |->
        [i \in DOMAIN a.alphas |-> add(a.alphas[i], mul(b.alphas[i], challenge))]]

\* W::combine of the configured witness type
plain_witness_combine(a, b, challenge) ==
    [c \in DOMAIN a |->
        [j \in DOMAIN a[c] |-> add(a[c][j], mul(b[c][j], challenge))]]

\* ExtendedInstance::extend
extended_instance_extend(instance) ==
    [instance |-> instance, extended |-> <<>>]

\* ExtendedWitness::extend
extended_witness_extend(witness) ==
    [witness |-> witness, extended |-> <<>>]

\* Instance::relax with the slack left at zero
instance_relax_zero_u(self, zero_commit) ==
    [extended_instance |-> extended_instance_extend(self),
     u |-> 0,
     error_commitment |-> zero_commit]

\* Instance::relax
instance_relax(self, zero_commit) ==
    [extended_instance |-> extended_instance_extend(self),
     u |-> one,
     error_commitment |-> zero_commit]

\* Witness::relax
witness_relax(self, zero_poly) ==
    [extended_witness |-> extended_witness_extend(self),
     error_vec |-> zero_poly]

\* RelaxableInstance::relax that relaxes a relaxed instance once more
relaxable_instance_relax_again(self, zero_commitment) ==
    IF IsRelaxedInstance(self)
    THEN [self EXCEPT !.u = one, !.error_commitment = zero_commitment]
    ELSE instance_relax(self, zero_commitment)

\* RelaxableInstance::relax, for I and for RelaxedInstance
relaxable_instance_relax(self, zero_commitment) ==
    IF IsRelaxedInstance(self) THEN self
    ELSE instance_relax(self, zero_commitment)

\* RelaxableWitness::relax, for W and for RelaxedWitness
relaxable_witness_relax(self, zero_poly) ==
    IF IsRelaxedWitness(self) THEN self
    ELSE witness_relax(self, zero_poly)

\* RelaxablePair::relax, for (I, W) and for (RelaxedInstance, RelaxedWitness)
relaxable_pair_relax(self, zero_poly, zero_commitment) ==
    IF IsRelaxedInstance(self[1]) THEN self
    ELSE <<relaxable_instance_relax(self[1], zero_commitment),
           relaxable_witness_relax(self[2], zero_poly)>>

\* ExtendedWitness::combine: the two maps are zipped in key order
extended_witness_combine(a, b, challenge) ==
    LET k1 == SortedKeys(DOMAIN a.extended)
        k2 == SortedKeys(DOMAIN b.extended)
        n == Min(Len(k1), Len(k2))
    IN  IF \E k \in 1 .. n : k1[k] # k2[k] THEN Panic("assert_eq!(i, b.0)")
        ELSE
        [witness |-> plain_witness_combine(a.witness, b.witness, challenge),
         extended |->
            [i \in {k1[k] : k \in 1 .. n} |->
                [j \in DOMAIN a.extended[i] |->
                    IF j \in DOMAIN b.extended[i]
                    THEN add(a.extended[i][j], mul(b.extended[i][j], challenge))
                    ELSE a.extended[i][j]]]]

\* ExtendedInstance::combine that adds the extended commitments unscaled
extended_instance_combine_unscaled(a, b, challenge) ==
    [instance |-> plain_instance_combine(a.instance, b.instance, challenge),
     extended |->
        [i \in 1 .. Min(Len(a.extended), Len(b.extended)) |->
            comm_add(a.extended[i], b.extended[i])]]

\* ExtendedInstance::combine: the two vectors are zipped
extended_instance_combine(a, b, challenge) ==
    [instance |-> plain_instance_combine(a.instance, b.instance, challenge),
     extended |->
        [i \in 1 .. Min(Len(a.extended), Len(b.extended)) |->
            comm_add(a.extended[i], scale(b.extended[i], challenge))]]

\* RelaxedInstance::combine that scales the error by the challenge itself
relaxed_instance_combine_linear(a, b, challenge) ==
    [extended_instance |->
        extended_instance_combine(a.extended_instance, b.extended_instance,
                                  challenge),
     u |-> add(a.u, mul(b.u, challenge)),
     error_commitment |->
        comm_add(a.error_commitment, scale(b.error_commitment, challenge))]

\* RelaxedInstance::combine
relaxed_instance_combine(a, b, challenge) ==
    LET challenge_cube == mul(mul(challenge, challenge), challenge)
    IN  [extended_instance |->
            extended_instance_combine(a.extended_instance, b.extended_instance,
                                      challenge),
         u |-> add(a.u, mul(b.u, challenge)),
         error_commitment |->
            comm_add(a.error_commitment, scale(b.error_commitment, challenge_cube))]

\* RelaxedInstance::sub_errors
sub_errors(self, error_commitments, challenge) ==
    LET e0 == error_commitments[1]
        e1 == error_commitments[2]
    IN  [extended_instance |-> self.extended_instance,
         u |-> self.u,
         error_commitment |->
            comm_sub(self.error_commitment,
                     comm_add(scale(e0, challenge),
                              scale(e1, mul(challenge, challenge))))]

\* RelaxedInstance::combine_and_sub_error
instance_combine_and_sub_error(a, b, challenge, error_commitments) ==
    sub_errors(relaxed_instance_combine(a, b, challenge), error_commitments,
               challenge)

\* RelaxedWitness::combine
relaxed_witness_combine(a, b, challenge) ==
    LET challenge_cube == mul(mul(challenge, challenge), challenge)
        extended_witness ==
            extended_witness_combine(a.extended_witness, b.extended_witness,
                                     challenge)
    IN  IF IsPanic(extended_witness) THEN extended_witness
        ELSE
        [extended_witness |-> extended_witness,
         error_vec |->
            [j \in DOMAIN a.error_vec |->
                IF j \in DOMAIN b.error_vec
                THEN add(a.error_vec[j], mul(b.error_vec[j], challenge_cube))
                ELSE a.error_vec[j]]]

\* RelaxedWitness::sub_error with the two cross terms swapped
sub_error_swapped(self, errors, challenge) ==
    LET e0 == errors[1]
        e1 == errors[2]
    IN  [extended_witness |-> self.extended_witness,
         error_vec |->
            [j \in DOMAIN self.error_vec |->
                IF j \in DOMAIN e0 /\ j \in DOMAIN e1
                THEN sub(self.error_vec[j],
                         mul(add(mul(e0[j], challenge), e1[j]), challenge))
                ELSE self.error_vec[j]]]

\* RelaxedWitness::sub_error
sub_error(self, errors, challenge) ==
    LET e0 == errors[1]
        e1 == errors[2]
    IN  [extended_witness |-> self.extended_witness,
         error_vec |->
            [j \in DOMAIN self.error_vec |->
                IF j \in DOMAIN e0 /\ j \in DOMAIN e1
                THEN sub(self.error_vec[j],
                         mul(add(mul(e1[j], challenge), e0[j]), challenge))
                ELSE self.error_vec[j]]]

\* RelaxedWitness::combine_and_sub_error
witness_combine_and_sub_error(a, b, challenge, error) ==
    LET c == relaxed_witness_combine(a, b, challenge)
    IN  IF IsPanic(c) THEN c ELSE sub_error(c, error, challenge)

\* the order in which the configured instance lists its column commitments
ColOrder == <<"x", "y">>

\* I::to_absorb of the configured instance type: (scalars, points)
plain_to_absorb(instance) ==
    <<instance.challenges \o instance.alphas,
      [k \in 1 .. Len(ColOrder) |-> instance.commitments[ColOrder[k]]]>>

\* ExtendedInstance::to_absorb
extended_to_absorb(self) ==
    LET elements == plain_to_absorb(self.instance)
    IN  <<elements[1], elements[2] \o self.extended>>

\* RelaxedInstance::to_absorb
relaxed_to_absorb(self) ==
    LET elements == extended_to_absorb(self.extended_instance)
    IN  <<Append(elements[1], self.u), Append(elements[2], self.error_commitment)>>

\* -------------------------------------------------------------- evaluation
\* the fixed (non-witness) columns of the structure
Structure == [c \in FixedCols |-> [j \in RowSet |-> j % 2]]

RowOf(j, row) == IF row = "Curr" THEN j ELSE (j % Rows) + 1

\* the value at row j of a FoldingCompatibleExpr on a relaxed pair
RECURSIVE Eval(_, _, _, _)
Eval(e, ins, wit, j) ==
    CASE e[1] = "Constant" -> e[2] % P
      [] e[1] = "Challenge" -> ins.extended_instance.instance.challenges[e[2] + 1]
      [] e[1] = "Cell" ->
            IF e[2][1] \in WitnessCols
            THEN wit.extended_witness.witness[e[2][1]][RowOf(j, e[2][2])]
            ELSE Structure[e[2][1]][RowOf(j, e[2][2])]
      [] e[1] = "Double" ->
            LET v == Eval(e[2], ins, wit, j) IN add(v, v)
      [] e[1] = "Square" ->
            LET v == Eval(e[2], ins, wit, j) IN mul(v, v)
      [] e[1] = "BinOp" ->
           (LET a == Eval(e[3], ins, wit, j)
                b == Eval(e[4], ins, wit, j)
            IN  CASE e[2] = "Add" -> add(a, b)
                  [] e[2] = "Sub" -> sub(a, b)
                  [] e[2] = "Mul" -> mul(a, b))
      [] e[1] = "UnnormalizedLagrangeBasis" -> IF j = e[2] + 1 THEN one ELSE 0
      [] e[1] = "Extensions" ->
            LET x == e[2]
            IN  CASE x[1] = "U" -> ins.u
                  [] x[1] = "Error" -> wit.error_vec[j]
                  [] x[1] = "ExtendedWitness" ->
                        wit.extended_witness.extended[x[2]][j]
                  [] x[1] = "Alpha" ->
                        ins.extended_instance.instance.alphas[x[2] + 1]

\* ExtendedWitnessGenerator: the extended columns 0 .. n - 1 of a witness,
\* each the evaluation of its defining expression
RECURSIVE Extension(_, _, _, _)
Extension(defs, n, ins, wit) ==
    IF n = 0 THEN <<>>
    ELSE LET prev == Extension(defs, n - 1, ins, wit)
             w == [extended_witness |->
                      [witness |-> wit.extended_witness.witness,
                       extended |-> prev],
                   error_vec |-> wit.error_vec]
             col == [j \in RowSet |-> Eval(into_compatible(defs[n]), ins, w, j)]
         IN  [i \in 0 .. (n - 1) |-> IF i = n - 1 THEN col ELSE prev[i]]

\* ExtendedEnv::compute_extension on one side: the extended columns are
\* computed and committed unless the witness is already extended
compute_extension(defs, pair) ==
    LET ins == pair[1]
        wit == pair[2]
    IN  IF DOMAIN wit.extended_witness.extended # {} THEN pair
        ELSE
        LET ext == Extension(defs, Len(defs), ins, wit)
        IN  <<[extended_instance |->
                  [instance |-> ins.extended_instance.instance,
                   extended |->
                      [i \in 1 .. Len(defs) |->
                          commit_evaluations_non_hiding(ext[i - 1])]],
               u |-> ins.u,
               error_commitment |-> ins.error_commitment],
              [extended_witness |->
                  [witness |-> wit.extended_witness.witness, extended |-> ext],
               error_vec |-> wit.error_vec]>>

\* ------------------------------------------------------------- error terms
\* A polynomial in the folding challenge r, of degree at most three, is the
\* function of its coefficients.
Deg == 0 .. 3
pconst(c) == [d \in Deg |-> IF d = 0 THEN c % P ELSE 0]
plin(l, r) == [d \in Deg |-> IF d = 0 THEN l ELSE IF d = 1 THEN r ELSE 0]
padd(p, q) == [d \in Deg |-> add(p[d], q[d])]
psub(p, q) == [d \in Deg |-> sub(p[d], q[d])]

RECURSIVE PMulCoef(_, _, _, _)
PMulCoef(p, q, d, i) ==
    IF i < 0 THEN 0
    ELSE add(mul(p[i], q[d - i]), PMulCoef(p, q, d, i - 1))

pmul(p, q) == [d \in Deg |-> PMulCoef(p, q, d, d)]

\* the value at row j of a FoldingExp on the combination Left + r * Right of
\* the two sides of the extended environment, as a polynomial in r
RECURSIVE PolyEval(_, _, _, _)
PolyEval(e, l, r, j) ==
    CASE e[1] = "Cell" ->
           (LET c == e[2]
            IN  CASE c[1] = "Inner" ->
                        IF c[2][1] \in WitnessCols
                        THEN plin(l[2].extended_witness.witness[c[2][1]][RowOf(j, c[2][2])],
                                  r[2].extended_witness.witness[c[2][1]][RowOf(j, c[2][2])])
                        ELSE pconst(Structure[c[2][1]][RowOf(j, c[2][2])])
                  [] c[1] = "WitnessExtended" ->
                        plin(l[2].extended_witness.extended[c[2]][j],
                             r[2].extended_witness.extended[c[2]][j])
                  [] c[1] = "Constant" -> pconst(c[2])
                  [] c[1] = "UnnormalizedLagrangeBasis" ->
                        pconst(IF j = c[2] + 1 THEN 1 ELSE 0)
                  [] c[1] = "Challenge" ->
                        plin(l[1].extended_instance.instance.challenges[c[2] + 1],
                             r[1].extended_instance.instance.challenges[c[2] + 1])
                  [] c[1] = "Alpha" ->
                        plin(l[1].extended_instance.instance.alphas[c[2] + 1],
                             r[1].extended_instance.instance.alphas[c[2] + 1]))
      [] e[1] = "Double" ->
            LET v == PolyEval(e[2], l, r, j) IN padd(v, v)
      [] e[1] = "Square" ->
            LET v == PolyEval(e[2], l, r, j) IN pmul(v, v)
      [] e[1] = "Add" -> padd(PolyEval(e[2], l, r, j), PolyEval(e[3], l, r, j))
      [] e[1] = "Sub" -> psub(PolyEval(e[2], l, r, j), PolyEval(e[3], l, r, j))
      [] e[1] = "Mul" -> pmul(PolyEval(e[2], l, r, j), PolyEval(e[3], l, r, j))

\* the sum over one degree bucket of sign * alpha * term, scaled by scaling
RECURSIVE BucketPoly(_, _, _, _, _, _)
BucketPoly(terms, n, scaling, l, r, j) ==
    IF n = 0 THEN pconst(0)
    ELSE LET t == terms[n]
             v == pmul(pmul(PolyEval(t.exp, l, r, j),
                            PolyEval(<<"Cell", <<"Alpha", t.alpha>>>>, l, r, j)),
                       scaling)
             acc == BucketPoly(terms, n - 1, scaling, l, r, j)
         IN  IF t.sign = "Pos" THEN padd(acc, v) ELSE psub(acc, v)

\* compute_error: the two cross terms, the coefficients of r and of r^2 of
\* the compound constraint on Left + r * Right; terms of degree 0 are scaled
\* by u^2, terms of degree 1 by u, terms of degree 2 are not scaled
compute_error(exp, l, r, u) ==
    LET up == plin(u[1], u[2])
        cross(j) ==
            padd(padd(BucketPoly(exp.degree_0, Len(exp.degree_0), pmul(up, up), l, r, j),
                      BucketPoly(exp.degree_1, Len(exp.degree_1), up, l, r, j)),
                 BucketPoly(exp.degree_2, Len(exp.degree_2), pconst(1), l, r, j))
    IN  <<[j \in RowSet |-> cross(j)[1]], [j \in RowSet |-> cross(j)[2]]>>

\* ------------------------------------------------------------ the schemes
X == <<"Cell", <<"x", "Curr">>>>
Y == <<"Cell", <<"y", "Curr">>>>
S == <<"Cell", <<"s", "Curr">>>>

\* the constraint sets a scheme is built from (FoldingScheme::new)
Schemes ==
    << \* x - y
       << <<"BinOp", "Sub", X, Y>> >>,
       \* x^2 - y
       << <<"BinOp", "Sub", <<"Square", X>>, Y>> >>,
       \* x^3 - y
       << <<"BinOp", "Sub", <<"Pow", X, 3>>, Y>> >>,
       \* s * (x * y - 1 + x)
       << <<"BinOp", "Mul", S,
            <<"BinOp", "Add",
              <<"BinOp", "Sub", <<"BinOp", "Mul", X, Y>>, <<"Constant", 1>>>>,
              X>>>> >> >>

SchemeIds == 1 .. Len(Schemes)

\* FoldingScheme::new: the compiled expression, the witness generator, the
\* zero vector and its commitment, and the final expression
Compiled == [s \in SchemeIds |-> folding_expression(Schemes[s])]
expression(s) == Compiled[s][2]
extended_witness_generator(s) == Compiled[s][3]
NumAlphas(s) == Compiled[s][4]
zero_vec == ZeroVec
\* the commitment of the all-one vector in place of the zero commitment
zero_commitment_of_ones == commit_evaluations_non_hiding([j \in RowSet |-> one])
zero_commitment == commit_evaluations_non_hiding(zero_vec)
FinalExpression == [s \in SchemeIds |-> final_expression(expression(s))]

\* ------------------------------------------------------------- the inputs
\* challenges of a fresh instance
MaxAlpha == 2
AlphaVals == 2 .. MaxAlpha

RECURSIVE pow(_, _)
pow(a, n) == IF n = 0 THEN one ELSE mul(a, pow(a, n - 1))

\* the instance of a witness: the commitments of its columns, one challenge
\* and the alphas, the powers of alpha
InstanceOf(s, w, alpha) ==
    [commitments |-> [c \in WitnessCols |-> commit_evaluations_non_hiding(w[c])],
     challenges |-> <<alpha % P>>,
     alphas |-> [i \in 1 .. NumAlphas(s) |-> pow(alpha % P, i)]]

\* a plain pair satisfies the constraints of scheme s when each of them
\* evaluates to zero on every row
Satisfies(s, w) ==
    LET pair == <<instance_relax(InstanceOf(s, w, 1), zero_commitment),
                  witness_relax(w, zero_vec)>>
    IN  \A i \in 1 .. Len(Schemes[s]) : \A j \in RowSet :
            Eval(into_compatible(simplify(Schemes[s][i])), pair[1], pair[2], j) = 0

PlainWitnesses == [WitnessCols -> [RowSet -> 0 .. MaxVal]]

PlainPairs ==
    [s \in SchemeIds |->
        {<<InstanceOf(s, w, alpha), w>> :
            w \in {v \in PlainWitnesses : Satisfies(s, v)}, alpha \in AlphaVals}]

\* --------------------------------------------------------- the fold driver
VARIABLES
    scheme,             \* the constraint set FoldingScheme::new was given
    sponge,             \* the parameter of the configured sponge
    pc,                 \* position in fold_instance_witness_pair
    a, b,               \* the two pairs passed to the fold
    from_fold,          \* whether a, b are outputs of a fold (history)
    depth,              \* folds on the longest chain leading to the output
    env,                \* the two relaxed sides
    error,              \* the two error terms
    error_commitments,  \* their commitments
    absorbed,           \* what the sponge was given for the challenge
    challenge,          \* the folding challenge
    instance, witness,  \* the folded pair
    again,              \* the fold in progress repeats the previous one
    first,              \* the outputs of the previous fold, when it repeats
    call,               \* a function called on its own: its name and arguments
    ret,                \* <<"pending">>, or <<"returned", what the call returned>>
    lookups,            \* the LogupWitness list passed to prover::Env::create
    lpc,                \* position in prover::Env::create
    transcript,         \* what fq_sponge was asked, in order (history)
    vector_lookup_combiner, beta,   \* the two challenges
    lookup_counters,    \* lookup_counters_evals_d1: table id -> m
    lookup_terms_map,   \* table id -> partial sums
    fixed_lookup_tables,            \* table id -> table values
    lookup_aggregation, \* lookup_aggregation_evals_d1
    curr_step,          \* KeccakEnv::curr_step: <<"Some", step>> or <<"None">>
    blocks_left_to_absorb,          \* KeccakEnv::blocks_left_to_absorb
    blocks,             \* the blocks left when the hash started (history)
    visited,            \* the steps update_step has left, in order (history)
    update_ret,         \* what the last update_step did: returned or aborted
    trace,              \* the MIPS trace: its domain_size and witness
    trace_call,         \* the last call made on the trace (history)
    trace_ret,          \* what that call returned
    rows_before         \* the rows each instruction held before it (history)

\* the variables of fold_instance_witness_pair
foldVars == <<scheme, sponge, pc, a, b, from_fold, depth, env, error,
              error_commitments, absorbed, challenge, instance, witness, again,
              first>>
\* the variables of a function called on its own
callVars == <<call, ret>>
\* the variables of prover::Env::create
logupVars == <<lookups, lpc, transcript, vector_lookup_combiner, beta,
               lookup_counters, lookup_terms_map, fixed_lookup_tables,
               lookup_aggregation>>
\* the variables of KeccakEnv::update_step
keccakVars == <<curr_step, blocks_left_to_absorb, blocks, visited, update_ret>>
\* the variables of the MIPS trace
traceVars == <<trace, trace_call, trace_ret, rows_before>>
\* what a fold leaves alone
notFold == <<callVars, logupVars, keccakVars, traceVars>>
\* what a function called on its own leaves alone
notCall == <<foldVars, logupVars, keccakVars, traceVars>>
\* what prover::Env::create leaves alone
notLogup == <<foldVars, callVars, keccakVars, traceVars>>
\* what update_step leaves alone
notKeccak == <<foldVars, callVars, logupVars, traceVars>>
\* what the MIPS trace leaves alone
notTrace == <<foldVars, callVars, logupVars, keccakVars>>

vars == <<foldVars, callVars, logupVars, keccakVars, traceVars>>

\* a sponge that keeps what an earlier fold absorbed
sponge_challenge_stateful(param, absorbe) ==
    add(add(param, add(absorbe[1], mul(2, absorbe[2]))),
        IF again THEN one ELSE 0)

\* Sponge::challenge: a function of the two error commitments, and of the
\* sponge the configuration chose (its parameter)
sponge_challenge(param, absorbe) ==
    add(param, add(absorbe[1], mul(2, absorbe[2])))

\* no fold has been called on the scheme
FoldIdle ==
    /\ pc = "idle"
    /\ a = <<>> /\ b = <<>>
    /\ from_fold = <<FALSE, FALSE>>
    /\ depth = 0
    /\ env = <<>> /\ error = <<>> /\ error_commitments = <<>>
    /\ absorbed = <<>> /\ challenge = 0
    /\ instance = <<>> /\ witness = <<>>
    /\ again = FALSE /\ first = <<>>

\* no function is called on its own
CallIdle == call = <<>> /\ ret = <<>>

\* prover::Env::create has not been called
LogupIdle ==
    /\ lookups = <<>> /\ lpc = "idle" /\ transcript = <<>>
    /\ vector_lookup_combiner = 0 /\ beta = 0
    /\ lookup_counters = <<>> /\ lookup_terms_map = <<>>
    /\ fixed_lookup_tables = <<>> /\ lookup_aggregation = <<>>

\* no Keccak environment is stepping
KeccakIdle ==
    /\ curr_step = <<>> /\ blocks_left_to_absorb = 0 /\ blocks = 0
    /\ visited = <<>> /\ update_ret = <<>>

\* no MIPS trace was made
TraceIdle ==
    /\ trace = [domain_size |-> 0, witness |-> <<>>]
    /\ trace_call = [fn |-> "none"] /\ trace_ret = <<>> /\ rows_before = <<>>

Init ==
    /\ scheme \in SchemeIds
    /\ sponge \in F
    /\ FoldIdle
    /\ CallIdle
    /\ LogupIdle
    /\ KeccakIdle
    /\ TraceIdle

\* the pairs a caller can pass: fresh satisfying pairs and, once a fold has
\* returned, its output
Accumulators == IF pc = "done" /\ depth < MaxFolds THEN {<<instance, witness>>} ELSE {}

\* fold_instance_witness_pair(a, b) is called and relaxes both pairs
\* (mod.rs 231-236)
Relax(pa, pb, fa, fb) ==
    /\ a' = pa /\ b' = pb
    /\ from_fold' = <<fa, fb>>
    /\ env' = <<relaxable_pair_relax(pa, zero_vec, zero_commitment),
                relaxable_pair_relax(pb, zero_vec, zero_commitment)>>
    /\ pc' = "relaxed"
    /\ error' = <<>> /\ error_commitments' = <<>> /\ absorbed' = <<>>
    /\ challenge' = 0 /\ instance' = <<>> /\ witness' = <<>>

StartFold ==
    /\ pc \in {"idle", "done"}
    /\ \E pa, pb \in PlainPairs[scheme] \cup Accumulators :
          LET fa == pa \in Accumulators
              fb == pb \in Accumulators
          IN  /\ Relax(pa, pb, fa, fb)
              /\ depth' = IF fa \/ fb THEN depth + 1 ELSE 1
    /\ again' = FALSE /\ first' = <<>>
    /\ UNCHANGED <<scheme, sponge>>
    /\ UNCHANGED notFold

\* the same fold is run again on the same inputs
Refold ==
    /\ pc = "done" /\ ~again
    /\ Relax(a, b, from_fold[1], from_fold[2])
    /\ again' = TRUE
    /\ first' = <<instance, witness, error_commitments>>
    /\ UNCHANGED <<scheme, sponge, depth>>
    /\ UNCHANGED notFold

\* ExtendedEnv::new and compute_extension (mod.rs 238-239)
ComputeExtension ==
    /\ pc = "relaxed"
    /\ env' = <<compute_extension(extended_witness_generator(scheme), env[1]),
                compute_extension(extended_witness_generator(scheme), env[2])>>
    /\ pc' = "extended"
    /\ UNCHANGED <<scheme, sponge, a, b, from_fold, depth, error,
                   error_commitments, absorbed, challenge, instance, witness,
                   again, first>>
    /\ UNCHANGED notFold

\* compute_error (mod.rs 240-241)
ComputeError ==
    /\ pc = "extended"
    /\ error' = compute_error(expression(scheme), env[1], env[2],
                              <<env[1][1].u, env[2][1].u>>)
    /\ pc' = "errors"
    /\ UNCHANGED <<scheme, sponge, a, b, from_fold, depth, env,
                   error_commitments, absorbed, challenge, instance, witness,
                   again, first>>
    /\ UNCHANGED notFold

\* the two error terms are committed (mod.rs 244-245)
CommitErrors ==
    /\ pc = "errors"
    /\ error_commitments' = <<commit_evaluations_non_hiding(error[1]),
                              commit_evaluations_non_hiding(error[2])>>
    /\ pc' = "committed"
    /\ UNCHANGED <<scheme, sponge, a, b, from_fold, depth, env, error,
                   absorbed, challenge, instance, witness, again, first>>
    /\ UNCHANGED notFold

\* the challenge is coined from the commitment of the first error term only
CoinChallengeFirstOnly ==
    /\ pc = "committed"
    /\ absorbed' = <<error_commitments[1], error_commitments[1]>>
    /\ challenge' = sponge_challenge(sponge, <<error_commitments[1],
                                               error_commitments[1]>>)
    /\ pc' = "challenged"
    /\ UNCHANGED <<scheme, sponge, a, b, from_fold, depth, env, error,
                   error_commitments, instance, witness, again, first>>
    /\ UNCHANGED notFold

\* the challenge is coined (mod.rs 248)
CoinChallenge ==
    /\ pc = "committed"
    /\ absorbed' = error_commitments
    /\ challenge' = sponge_challenge(sponge, error_commitments)
    /\ pc' = "challenged"
    /\ UNCHANGED <<scheme, sponge, a, b, from_fold, depth, env, error,
                   error_commitments, instance, witness, again, first>>
    /\ UNCHANGED notFold

\* the instances are combined (mod.rs 249-251)
CombineInstance ==
    /\ pc = "challenged"
    /\ instance' = instance_combine_and_sub_error(env[1][1], env[2][1], challenge,
                                                  error_commitments)
    /\ pc' = "instance"
    /\ UNCHANGED <<scheme, sponge, a, b, from_fold, depth, env, error,
                   error_commitments, absorbed, challenge, witness, again,
                   first>>
    /\ UNCHANGED notFold

\* the witnesses are combined and the fold returns (mod.rs 252-253)
CombineWitness ==
    /\ pc = "instance"
    /\ witness' = witness_combine_and_sub_error(env[1][2], env[2][2], challenge,
                                                error)
    /\ pc' = "done"
    /\ UNCHANGED <<scheme, sponge, a, b, from_fold, depth, env, error,
                   error_commitments, absorbed, challenge, instance, again,
                   first>>
    /\ UNCHANGED notFold

Next ==
    \/ StartFold
    \/ Refold
    \/ ComputeExtension
    \/ ComputeError
    \/ CommitErrors
    \/ CoinChallenge
    \/ CombineInstance
    \/ CombineWitness

Spec == Init /\ [][Next]_vars

\* the fold has returned
Done == pc = "done"

\* fold_instance_pair (mod.rs 256-270): both instances are relaxed, the
\* challenge is coined from the error commitments the caller passes and the
\* instances are combined
fold_instance_pair(param, l, r, commitments) ==
    instance_combine_and_sub_error(
        relaxable_instance_relax(l, zero_commitment),
        relaxable_instance_relax(r, zero_commitment),
        sponge_challenge(param, commitments), commitments)

\* ------------------------------------------- combine called on its own
\* most extended columns of an object passed to combine
MaxExtended == 2

\* the call has returned
Returned(fn) == ret # <<>> /\ ret[1] = "returned" /\ call.fn = fn

\* an instance of the configured type, the same on both sides
SomeInstance == InstanceOf(1, [c \in WitnessCols |-> ZeroVec], 2)

\* extended instances: a vector of commitments to the extended columns
ExtendedInstances ==
    {[instance |-> SomeInstance, extended |-> e] :
        e \in UNION {[1 .. n -> 0 .. MaxVal] : n \in 0 .. MaxExtended}}

\* extended witnesses: a map from column index to its evaluations
ExtendedWitnesses ==
    {[witness |-> [c \in WitnessCols |-> ZeroVec], extended |-> e] :
        e \in UNION {[K -> {ZeroVec, [j \in RowSet |-> one]}] :
                        K \in SUBSET (0 .. (MaxExtended - 1))}}

CombineCalls ==
    {[fn |-> "ExtendedInstance::combine", a |-> x, b |-> y, challenge |-> r] :
        x \in ExtendedInstances, y \in ExtendedInstances, r \in F}
    \cup
    {[fn |-> "ExtendedWitness::combine", a |-> x, b |-> y, challenge |-> r] :
        x \in ExtendedWitnesses, y \in ExtendedWitnesses, r \in F}

InitCombine ==
    /\ scheme = 1 /\ sponge = 0 /\ FoldIdle /\ LogupIdle
    /\ KeccakIdle /\ TraceIdle
    /\ call \in CombineCalls
    /\ ret = <<"pending">>

\* ExtendedInstance::combine(a, b, challenge) runs to its end
CallExtendedInstanceCombine ==
    /\ ret = <<"pending">> /\ call.fn = "ExtendedInstance::combine"
    /\ ret' = <<"returned",
                extended_instance_combine(call.a, call.b, call.challenge)>>
    /\ UNCHANGED <<call, notCall>>

\* ExtendedWitness::combine(a, b, challenge) runs to its end or panics
CallExtendedWitnessCombine ==
    /\ ret = <<"pending">> /\ call.fn = "ExtendedWitness::combine"
    /\ ret' = <<"returned",
                extended_witness_combine(call.a, call.b, call.challenge)>>
    /\ UNCHANGED <<call, notCall>>

NextCombine ==
    \/ CallExtendedInstanceCombine
    \/ CallExtendedWitnessCombine

SpecCombine == InitCombine /\ [][NextCombine]_vars

\* ------------------------------------------- simplify called on its own
\* largest exponent of a Pow node passed to simplify
MaxPow == 10

\* the expressions a Pow node raises to a power
PowBases ==
    {X, Y, S, <<"Constant", 2>>, <<"Double", X>>, <<"Square", Y>>,
     <<"BinOp", "Add", X, Y>>, <<"BinOp", "Mul", X, S>>}

\* expressions with a Pow node: alone, and under another node
SimplifyCalls ==
    {[fn |-> "simplify", exp |-> <<"Pow", e, q>>] :
        e \in PowBases, q \in 0 .. MaxPow}
    \cup
    {[fn |-> "simplify", exp |-> <<"BinOp", "Sub", <<"Pow", X, q>>, Y>>] :
        q \in 0 .. MaxPow}

InitSimplify ==
    /\ scheme = 1 /\ sponge = 0 /\ FoldIdle /\ LogupIdle
    /\ KeccakIdle /\ TraceIdle
    /\ call \in SimplifyCalls
    /\ ret = <<"pending">>

\* FoldingCompatibleExpr::simplify runs to its end or panics
CallSimplify ==
    /\ ret = <<"pending">> /\ call.fn = "simplify"
    /\ ret' = <<"returned", simplify(call.exp)>>
    /\ UNCHANGED <<call, notCall>>

NextSimplify == CallSimplify

SpecSimplify == InitSimplify /\ [][NextSimplify]_vars

\* ------------------------------- the compilation of a set of constraints
\* most constraints of a set passed to FoldingScheme::new
MaxConstraints == 2

\* the leaves of a FoldingExp: a witness cell, a fixed cell, a constant and
\* a challenge
DegreeLeaves ==
    {<<"Cell", <<"Inner", <<"x", "Curr">>>>>>, <<"Cell", <<"Inner", <<"s", "Curr">>>>>>,
     <<"Cell", <<"Constant", 2>>>>, <<"Cell", <<"Challenge", 0>>>>}

\* one node over the leaves
DegreeNodes ==
    DegreeLeaves
    \cup {<<op, e1, e2>> : op \in {"Mul", "Add", "Sub"},
                           e1 \in DegreeLeaves, e2 \in DegreeLeaves}
    \cup {<<op, e>> : op \in {"Square", "Double"}, e \in DegreeLeaves}

\* expressions of degree zero to four
DegreeCalls ==
    {[fn |-> "folding_degree", exp |-> e] :
        e \in DegreeNodes
               \cup {<<"Mul", e1, e2>> : e1 \in DegreeNodes, e2 \in DegreeLeaves}
               \cup {<<"Square", e1>> : e1 \in DegreeNodes}}

\* the constraints a set is made of
ConstraintPool ==
    {<<"BinOp", "Sub", X, Y>>,
     <<"BinOp", "Sub", <<"Square", X>>, Y>>,
     <<"BinOp", "Sub", <<"Pow", X, 3>>, Y>>,
     <<"BinOp", "Mul", S,
        <<"BinOp", "Add",
          <<"BinOp", "Sub", <<"BinOp", "Mul", X, Y>>, <<"Constant", 1>>>>, X>>>>,
     <<"BinOp", "Sub", <<"BinOp", "Mul", <<"Challenge", 0>>, X>>, <<"Double", Y>>>>,
     <<"BinOp", "Add", <<"Pow", Y, 9>>, X>>}

NewCalls ==
    {[fn |-> "FoldingScheme::new", constraints |-> cs] :
        cs \in UNION {[1 .. n -> ConstraintPool] : n \in 1 .. MaxConstraints}}

InitCompile ==
    /\ scheme = 1 /\ sponge = 0 /\ FoldIdle /\ LogupIdle
    /\ KeccakIdle /\ TraceIdle
    /\ call \in DegreeCalls \cup NewCalls
    /\ ret = <<"pending">>

\* FoldingExp::folding_degree returns the degree or panics
CallFoldingDegree ==
    /\ ret = <<"pending">> /\ call.fn = "folding_degree"
    /\ ret' = <<"returned", folding_degree(call.exp)>>
    /\ UNCHANGED <<call, notCall>>

\* what FoldingScheme::new keeps and returns of a compiled expression
NewScheme(compiled) ==
    IF IsAbort(compiled) THEN compiled
    ELSE <<"Ok", [expression |-> compiled[2],
                  extended_witness_generator |-> compiled[3],
                  final_expression |-> final_expression(compiled[2])]>>

\* FoldingScheme::new compiles the constraints and builds the final
\* expression, or panics (mod.rs 198, 204)
CallNew ==
    /\ ret = <<"pending">> /\ call.fn = "FoldingScheme::new"
    /\ ret' = <<"returned", NewScheme(folding_expression(call.constraints))>>
    /\ UNCHANGED <<call, notCall>>

NextCompile ==
    \/ CallFoldingDegree
    \/ CallNew

SpecCompile == InitCompile /\ [][NextCompile]_vars

\* ------------------------------------ the logarithmic lookup argument
\* (msm/src/logup.rs)
\* the highest degree of a constraint; the chunks hold MAX_SUPPORTED_DEGREE - 2
\* lookups (6)
MAX_SUPPORTED_DEGREE == 8

ChunkSize == MAX_SUPPORTED_DEGREE - 2

\* G::ScalarField is a prime field: the smallest one of at least P elements
IsPrime(n) == n > 1 /\ \A d \in 2 .. (n - 1) : n % d # 0
Q == CHOOSE q \in P .. (2 * P) : IsPrime(q) /\ \A r \in P .. (q - 1) : ~IsPrime(r)
LF == 0 .. (Q - 1)

fadd(x, y) == (x + y) % Q
fneg(x) == (Q - (x % Q)) % Q
fsub(x, y) == fadd(x, fneg(y))
fmul(x, y) == (x * y) % Q

\* one element of ark_ff::fields::batch_inversion: zero is left as it is
finv(x) == IF x = 0 THEN 0 ELSE CHOOSE y \in LF : fmul(x, y) = 1

\* LookupTableID: three tables, the second one not fixed (a RAM lookup)
TableIds == {1, 2, 3}
is_fixed(id) == id # 2
\* LookupTableID::to_field
to_field(id) == id % Q

\* A Logup is [table_id, numerator, value]; a LogupWitness is [f, m, table_id],
\* f a sequence of columns, a column having one Logup per row.

\* the vector of ar scalars that stands for the value v
Entry(v, ar) == [k \in 1 .. ar |-> (v + k - 1) % Q]

\* the witness of a fixed table whose j-th entry is j: the read columns look
\* up the entries reads[i][j], the table column comes last with the negated
\* multiplicities
FixedWitness(id, reads, counts, ar) ==
    [f |-> [i \in 1 .. (Len(reads) + 1) |-> [j \in RowSet |->
              IF i <= Len(reads)
              THEN [table_id |-> id, numerator |-> 1,
                    value |-> Entry(reads[i][j], ar)]
              ELSE [table_id |-> id, numerator |-> fneg(counts[j]),
                    value |-> Entry(j, ar)]]],
     m |-> [j \in RowSet |-> counts[j] % Q],
     table_id |-> id]

\* the witness of a table that is not fixed: a column of reads and a column
\* of writes of the same values, each written once
RamWitness(id, ar) ==
    [f |-> [i \in 1 .. 2 |-> [j \in RowSet |->
              [table_id |-> id, numerator |-> IF i = 1 THEN 1 ELSE fneg(1),
               value |-> Entry(j, ar)]]],
     m |-> [j \in RowSet |-> 1],
     table_id |-> id]

\* the entry read by column i on row j, in the pattern s
ReadIndex(i, j, s) == IF s = Rows THEN 1 ELSE ((i + j + s) % Rows) + 1
Reads(n, s) == [i \in 1 .. n |-> [j \in RowSet |-> ReadIndex(i, j, s)]]

\* how many times the reads look up each entry
Counts(reads) ==
    [j \in RowSet |->
        Cardinality({c \in (1 .. Len(reads)) \X RowSet : reads[c[1]][c[2]] = j})]

ReadCounts == {1, ChunkSize - 1, ChunkSize}
Arities == {1, 2}
Patterns == 0 .. Rows

\* looked-up values all in the table, multiplicities counting them exactly
ValidWitnesses ==
    {FixedWitness(id, Reads(n, s), Counts(Reads(n, s)), ar) :
        id \in {1}, n \in ReadCounts, s \in Patterns, ar \in Arities}
    \cup {FixedWitness(3, Reads(1, 0), Counts(Reads(1, 0)), 1)}

\* one looked-up value changed, the multiplicities kept
ChangedWitnesses ==
    {FixedWitness(1, [Reads(1, s) EXCEPT ![1][1] = v], Counts(Reads(1, s)), ar) :
        s \in Patterns, ar \in Arities, v \in 0 .. (Rows + 1)}
    \ ValidWitnesses

\* one multiplicity lowered by one, the looked-up values kept
LoweredWitnesses ==
    {FixedWitness(1, Reads(1, s),
                  [Counts(Reads(1, s)) EXCEPT ![j] = IF @ > 0 THEN @ - 1 ELSE 0], ar) :
        s \in Patterns, ar \in Arities, j \in RowSet}
    \ ValidWitnesses

RamWitnesses == {RamWitness(2, ar) : ar \in Arities}

\* half of the accesses to a table that is not fixed: one column, of reads
\* (numerator one) or of writes (numerator minus one), of every entry
HalfRamWitness(id, numerator) ==
    [f |-> <<[j \in RowSet |->
                [table_id |-> id, numerator |-> numerator, value |-> Entry(j, 1)]]>>,
     m |-> [j \in RowSet |-> 1],
     table_id |-> id]

\* the reads and the writes of a table passed as two witnesses
SplitInputs ==
    {<<HalfRamWitness(2, 1), HalfRamWitness(2, fneg(1))>>,
     <<HalfRamWitness(2, fneg(1)), HalfRamWitness(2, 1)>>}

SmallWitnesses ==
    {FixedWitness(id, Reads(1, s), Counts(Reads(1, s)), 1) : id \in {1, 3}, s \in {0, Rows}}

\* the lists passed to prover::Env::create
LogupInputs ==
    {<<w>> : w \in ValidWitnesses \cup ChangedWitnesses \cup LoweredWitnesses
                   \cup RamWitnesses}
    \cup {<<w1, w2>> : w1 \in SmallWitnesses \cup RamWitnesses,
                       w2 \in SmallWitnesses \cup RamWitnesses}
    \cup SplitInputs

InitLogup ==
    /\ scheme = 1 /\ sponge = 0 /\ FoldIdle /\ CallIdle
    /\ KeccakIdle /\ TraceIdle
    /\ lookups \in LogupInputs
    /\ lpc = "counters" /\ transcript = <<>>
    /\ vector_lookup_combiner = 0 /\ beta = 0
    /\ lookup_counters = <<>> /\ lookup_terms_map = <<>>
    /\ fixed_lookup_tables = <<>> /\ lookup_aggregation = <<>>

\* the table a witness is filed under for its multiplicities
CounterId(lookup) == lookup.f[1][1].table_id

\* lookup_counters_evals_d1: the witnesses of fixed tables, collected into a
\* map by the table id of their first Logup
CounterIds(ls) == {CounterId(ls[k]) : k \in {k \in 1 .. Len(ls) : is_fixed(CounterId(ls[k]))}}
CounterOf(ls, id) ==
    ls[CHOOSE k \in 1 .. Len(ls) :
          /\ CounterId(ls[k]) = id
          /\ \A k2 \in 1 .. Len(ls) : CounterId(ls[k2]) = id => k2 <= k].m
lookup_counters_evals_d1(ls) == [id \in CounterIds(ls) |-> CounterOf(ls, id)]

\* the absorptions of the values of a map, in the order of its keys
RECURSIVE AbsorbAll(_, _, _)
AbsorbAll(kind, map, keys) ==
    IF keys = <<>> THEN <<>>
    ELSE <<<<"absorb", kind, keys[1], map[keys[1]]>>>>
         \o AbsorbAll(kind, map, Tail(keys))

\* logup.rs 516-564: commit to the multiplicities and absorb the commitments
AbsorbCounters ==
    /\ lpc = "counters"
    /\ lookup_counters' = lookup_counters_evals_d1(lookups)
    /\ transcript' = transcript
          \o AbsorbAll("m",
                [id \in CounterIds(lookups) |->
                    commit_evaluations_non_hiding(CounterOf(lookups, id))],
                SortedKeys(CounterIds(lookups)))
    /\ lpc' = "combiner"
    /\ UNCHANGED <<lookups, vector_lookup_combiner, beta, lookup_terms_map,
                   fixed_lookup_tables, lookup_aggregation, notLogup>>

\* logup.rs 574: fq_sponge.challenge()
CoinCombiner ==
    /\ lpc = "combiner"
    /\ \E c \in LF : vector_lookup_combiner' = c
    /\ transcript' = Append(transcript, <<"challenge", "vector_lookup_combiner">>)
    /\ lpc' = "beta"
    /\ UNCHANGED <<lookups, beta, lookup_counters, lookup_terms_map,
                   fixed_lookup_tables, lookup_aggregation, notLogup>>

\* logup.rs 577: fq_sponge.challenge()
CoinBeta ==
    /\ lpc = "beta"
    /\ \E c \in LF : beta' = c
    /\ transcript' = Append(transcript, <<"challenge", "beta">>)
    /\ lpc' = "terms"
    /\ UNCHANGED <<lookups, vector_lookup_combiner, lookup_counters,
                   lookup_terms_map, fixed_lookup_tables, lookup_aggregation,
                   notLogup>>

\* the same fold taken from the first scalar up
RECURSIVE FoldFwd(_, _, _)
FoldFwd(value, k, r) ==
    IF k > Len(value) THEN 0
    ELSE fadd(fmul(FoldFwd(value, k + 1, r), r), value[Len(value) + 1 - k])

\* value.iter().rev().fold(zero, |acc, y| acc * r + y): the first n scalars
\* of the value, from the last one down
RECURSIVE FoldRev(_, _, _)
FoldRev(value, k, r) ==
    IF k > Len(value) THEN 0
    ELSE fadd(fmul(FoldRev(value, k + 1, r), r), value[k])

\* logup.rs 614-619, 631: the denominator of a Logup
lookup_denominator(lg, r, bt) ==
    fadd(bt, fadd(fmul(FoldRev(lg.value, 1, r), r), to_field(lg.table_id)))

\* logup.rs 643-669 for one row: the partial sums of row j, from column i on
RECURSIVE RowPartialSums(_, _, _, _, _, _, _)
RowPartialSums(f, j, r, bt, i, row_acc, out) ==
    IF i > Len(f)
    THEN IF Len(f) % ChunkSize # 0 THEN Append(out, row_acc) ELSE out
    ELSE LET acc == fadd(row_acc,
                         fmul(f[i][j].numerator,
                              finv(lookup_denominator(f[i][j], r, bt))))
         IN  IF i % ChunkSize = 0
             THEN RowPartialSums(f, j, r, bt, i + 1, 0, Append(out, acc))
             ELSE RowPartialSums(f, j, r, bt, i + 1, acc, out)

\* logup.rs 590-594
n_partial_sums(n) ==
    IF n % ChunkSize = 0 THEN n \div ChunkSize ELSE (n \div ChunkSize) + 1

\* logup.rs 595-670: the partial sums of a witness, one column per chunk
partial_sums(f, r, bt) ==
    [c \in 1 .. n_partial_sums(Len(f)) |->
        [j \in RowSet |-> RowPartialSums(f, j, r, bt, 1, 0, <<>>)[c]]]

\* logup.rs 623-628: what the last column of a witness adds to the fixed
\* tables, row after row
RECURSIVE PushFixed(_, _, _)
PushFixed(tables, col, j) ==
    IF j = 0 THEN tables
    ELSE LET t == PushFixed(tables, col, j - 1)
             id == col[j].table_id
         IN  IF ~is_fixed(id) THEN t
             ELSE IF id \in DOMAIN t
             THEN [t EXCEPT ![id] = Append(@, col[j].value[1])]
             ELSE [x \in DOMAIN t \cup {id} |->
                     IF x = id THEN <<col[j].value[1]>> ELSE t[x]]

\* BTreeMap::insert
MapInsert(map, key, value) ==
    [x \in DOMAIN map \cup {key} |-> IF x = key THEN value ELSE map[x]]

\* logup.rs 586-672: the first k witnesses processed
RECURSIVE TermsUpTo(_, _, _, _)
TermsUpTo(ls, k, r, bt) ==
    IF k = 0 THEN [terms |-> <<>>, fixed |-> <<>>]
    ELSE LET prev == TermsUpTo(ls, k - 1, r, bt)
             f == ls[k].f
         IN  [terms |-> MapInsert(prev.terms, ls[k].table_id, partial_sums(f, r, bt)),
              fixed |-> PushFixed(prev.fixed, f[Len(f)], Rows)]

ComputeTerms ==
    /\ lpc = "terms"
    /\ LET t == TermsUpTo(lookups, Len(lookups), vector_lookup_combiner, beta)
       IN  /\ lookup_terms_map' = t.terms
           /\ fixed_lookup_tables' = t.fixed
    /\ lpc' = "sanity"
    /\ UNCHANGED <<lookups, transcript, vector_lookup_combiner, beta,
                   lookup_counters, lookup_aggregation, notLogup>>

\* logup.rs 675-684: every column has one evaluation per row
SanityCheck ==
    /\ lpc = "sanity"
    /\ lpc' = IF /\ \A id \in DOMAIN lookup_terms_map :
                      \A c \in DOMAIN lookup_terms_map[id] :
                          Len(lookup_terms_map[id][c]) = Rows
                 /\ \A id \in DOMAIN fixed_lookup_tables :
                      Len(fixed_lookup_tables[id]) = Rows
              THEN "absorb_terms"
              ELSE "assertion failed: evals.len() == domain.d1.size"
    /\ UNCHANGED <<lookups, transcript, vector_lookup_combiner, beta,
                   lookup_counters, lookup_terms_map, fixed_lookup_tables,
                   lookup_aggregation, notLogup>>

\* the commitments to the partial sums of a table, absorbed in order
RECURSIVE AbsorbTermsOf(_, _, _)
AbsorbTermsOf(id, terms, c) ==
    IF c > Len(terms) THEN <<>>
    ELSE <<<<"absorb", "h", <<id, c - 1>>, commit_evaluations_non_hiding(terms[c])>>>>
         \o AbsorbTermsOf(id, terms, c + 1)

RECURSIVE AbsorbTermsAll(_, _)
AbsorbTermsAll(map, keys) ==
    IF keys = <<>> THEN <<>>
    ELSE AbsorbTermsOf(keys[1], map[keys[1]], 1) \o AbsorbTermsAll(map, Tail(keys))

\* the partial sums put in the transcript ahead of what it already holds
AbsorbTermsEarly ==
    /\ lpc = "absorb_terms"
    /\ transcript' =
          AbsorbTermsAll(lookup_terms_map, SortedKeys(DOMAIN lookup_terms_map))
          \o transcript
    /\ lpc' = "absorb_fixed"
    /\ UNCHANGED <<lookups, vector_lookup_combiner, beta, lookup_counters,
                   lookup_terms_map, fixed_lookup_tables, lookup_aggregation,
                   notLogup>>

\* logup.rs 778-782
AbsorbTerms ==
    /\ lpc = "absorb_terms"
    /\ transcript' = transcript
          \o AbsorbTermsAll(lookup_terms_map, SortedKeys(DOMAIN lookup_terms_map))
    /\ lpc' = "absorb_fixed"
    /\ UNCHANGED <<lookups, vector_lookup_combiner, beta, lookup_counters,
                   lookup_terms_map, fixed_lookup_tables, lookup_aggregation,
                   notLogup>>

\* logup.rs 784-786
AbsorbFixedTables ==
    /\ lpc = "absorb_fixed"
    /\ transcript' = transcript
          \o AbsorbAll("t",
                [id \in DOMAIN fixed_lookup_tables |->
                    commit_evaluations_non_hiding(fixed_lookup_tables[id])],
                SortedKeys(DOMAIN fixed_lookup_tables))
    /\ lpc' = "aggregation"
    /\ UNCHANGED <<lookups, vector_lookup_combiner, beta, lookup_counters,
                   lookup_terms_map, fixed_lookup_tables, lookup_aggregation,
                   notLogup>>

\* the terms of a table added to acc, its first partial sum left out
RECURSIVE AddTermsButFirst(_, _, _, _)
AddTermsButFirst(acc, terms, c, i) ==
    IF c <= 1 THEN acc
    ELSE fadd(AddTermsButFirst(acc, terms, c - 1, i), terms[c][i])

\* logup.rs 803: the terms of a table on row i added to acc
RECURSIVE AddTerms(_, _, _, _)
AddTerms(acc, terms, c, i) ==
    IF c = 0 THEN acc
    ELSE fadd(AddTerms(acc, terms, c - 1, i), terms[c][i])

\* logup.rs 802-804: the terms of every table on row i added to acc
RECURSIVE AddRow(_, _, _, _)
AddRow(acc, map, keys, i) ==
    IF keys = <<>> THEN acc
    ELSE AddRow(AddTerms(acc, map[keys[1]], Len(map[keys[1]]), i),
                map, Tail(keys), i)

\* an accumulator that starts from one
RECURSIVE AccAfterFromOne(_, _)
AccAfterFromOne(map, i) ==
    IF i = 0 THEN 1
    ELSE AddRow(AccAfterFromOne(map, i - 1), map, SortedKeys(DOMAIN map), i)

\* logup.rs 798-805: the accumulator after the first i rows
RECURSIVE AccAfter(_, _)
AccAfter(map, i) ==
    IF i = 0 THEN 0
    ELSE AddRow(AccAfter(map, i - 1), map, SortedKeys(DOMAIN map), i)

\* logup.rs 796-815: the running sum, and the assertion on its last value
Aggregate ==
    /\ lpc = "aggregation"
    /\ IF AccAfter(lookup_terms_map, Rows) = 0
       THEN /\ lookup_aggregation' =
                  [i \in RowSet |-> AccAfter(lookup_terms_map, i - 1)]
            /\ lpc' = "absorb_aggregation"
       ELSE /\ lpc' = "Logup accumulator must be zero"
            /\ UNCHANGED lookup_aggregation
    /\ UNCHANGED <<lookups, transcript, vector_lookup_combiner, beta,
                   lookup_counters, lookup_terms_map, fixed_lookup_tables,
                   notLogup>>

\* logup.rs 822-847: absorb the aggregation and return the environment
AbsorbAggregation ==
    /\ lpc = "absorb_aggregation"
    /\ transcript' = Append(transcript,
          <<"absorb", "sum", commit_evaluations_non_hiding(lookup_aggregation)>>)
    /\ lpc' = "done"
    /\ UNCHANGED <<lookups, vector_lookup_combiner, beta, lookup_counters,
                   lookup_terms_map, fixed_lookup_tables, lookup_aggregation,
                   notLogup>>

NextLogup ==
    \/ AbsorbCounters
    \/ CoinCombiner
    \/ CoinBeta
    \/ ComputeTerms
    \/ SanityCheck
    \/ AbsorbTerms
    \/ AbsorbFixedTables
    \/ Aggregate
    \/ AbsorbAggregation

SpecLogup == InitLogup /\ [][NextLogup]_vars

\* --------------------------------------- the constraints of the lookups
\* An expression E<F> is <<"Lit", c>>, <<"Beta">>, <<"JointCombiner">>,
\* <<"Cell", column, row>>, <<"Neg", e>>, <<"Add", e1, e2>>,
\* <<"Sub", e1, e2>>, <<"Mul", e1, e2>>.  The columns are
\* <<"X", id, i, k>> (the k-th scalar of the i-th value looked up in table
\* id), <<"LookupPartialSum", id, idx>>, <<"LookupMultiplicity", id>>,
\* <<"LookupFixedTable", id>> and <<"LookupAggregation">>.

\* most values looked up in one table, per row
MaxLookups == 13

curr_cell(col) == <<"Cell", col, "Curr">>
next_cell(col) == <<"Cell", col, "Next">>

\* Expr::degree(1, 0): a cell counts one, a constant or a challenge zero
RECURSIVE ExprDegree(_)
ExprDegree(e) ==
    CASE e[1] \in {"Lit", "Beta", "JointCombiner"} -> 0
      [] e[1] = "Cell" -> 1
      [] e[1] = "Neg" -> ExprDegree(e[2])
      [] e[1] = "Mul" -> ExprDegree(e[2]) + ExprDegree(e[3])
      [] e[1] \in {"Add", "Sub"} ->
            (IF ExprDegree(e[2]) >= ExprDegree(e[3]) THEN ExprDegree(e[2])
             ELSE ExprDegree(e[3]))

\* logup.rs 352-357: the value of a Logup combined, from scalar k on
RECURSIVE FoldRevExpr(_, _)
FoldRevExpr(value, k) ==
    IF k > Len(value) THEN <<"Lit", 0>>
    ELSE <<"Add", <<"Mul", FoldRevExpr(value, k + 1), <<"JointCombiner">>>>, value[k]>>

combined_value(x) == <<"Mul", FoldRevExpr(x.value, 1), <<"JointCombiner">>>>

\* logup.rs 348-364
denominator_expr(x) ==
    <<"Add", <<"Add", <<"Beta">>, combined_value(x)>>, <<"Lit", to_field(x.table_id)>>>>

\* logup.rs 366-368: column * the first n denominators
RECURSIVE LhsUpTo(_, _, _)
LhsUpTo(column, lks, n) ==
    IF n = 0 THEN curr_cell(column)
    ELSE <<"Mul", LhsUpTo(column, lks, n - 1), denominator_expr(lks[n])>>

\* logup.rs 373-384: numerator i times the first n denominators but the i-th
RECURSIVE InnerUpTo(_, _, _)
InnerUpTo(lks, i, n) ==
    IF n = 0 THEN lks[i].numerator
    ELSE IF n = i THEN InnerUpTo(lks, i, n - 1)
    ELSE <<"Mul", InnerUpTo(lks, i, n - 1), denominator_expr(lks[n])>>

\* logup.rs 369-388: the sum of the first n inner parts
RECURSIVE RhsUpTo(_, _)
RhsUpTo(lks, n) ==
    IF n = 0 THEN <<"Lit", 0>>
    ELSE IF n = 1 THEN InnerUpTo(lks, 1, Len(lks))
    ELSE <<"Add", RhsUpTo(lks, n - 1), InnerUpTo(lks, n, Len(lks))>>

\* logup.rs 333-390
combine_lookups(column, lks) ==
    IF \E i \in 1 .. Len(lks) : ExprDegree(combined_value(lks[i])) # 1
    THEN Abort("Only degree one is supported in the denominator")
    ELSE <<"Sub", LhsUpTo(column, lks, Len(lks)), RhsUpTo(lks, Len(lks))>>

\* logup.rs 402-406
table_lookup(id) ==
    [table_id |-> id,
     numerator |-> <<"Neg", curr_cell(<<"LookupMultiplicity", id>>)>>,
     value |-> <<curr_cell(<<"LookupFixedTable", id>>)>>]

\* chunks that hold one element more
RECURSIVE chunks_wide(_, _, _)
chunks_wide(seq, size, k) ==
    IF k > Len(seq) THEN <<>>
    ELSE <<SubSeq(seq, k, Min(k + size, Len(seq)))>> \o chunks_wide(seq, size, k + size + 1)

\* slice::chunks: the chunks of a sequence, from element k on
RECURSIVE chunks(_, _, _)
chunks(seq, size, k) ==
    IF k > Len(seq) THEN <<>>
    ELSE <<SubSeq(seq, k, Min(k + size - 1, Len(seq)))>> \o chunks(seq, size, k + size)

\* logup.rs 408-416: the constraints of the chunks of a table, from chunk c on
RECURSIVE ChunkConstraints(_, _, _)
ChunkConstraints(id, cks, c) ==
    IF c > Len(cks) THEN <<>>
    ELSE <<[col |-> <<"LookupPartialSum", id, c - 1>>,
            constraint |-> combine_lookups(<<"LookupPartialSum", id, c - 1>>, cks[c])]>>
         \o ChunkConstraints(id, cks, c + 1)

\* logup.rs 407-409: the lookups of a table with the table's own term pushed
lookups_with_table(lookups_map, id) == Append(lookups_map[id], table_lookup(id))

\* logup.rs 399-417: the partial-sum constraints of the tables of the map
RECURSIVE TableConstraints(_, _)
TableConstraints(lookups_map, keys) ==
    IF keys = <<>> THEN <<>>
    ELSE ChunkConstraints(keys[1],
             chunks(lookups_with_table(lookups_map, keys[1]), ChunkSize, 1), 1)
         \o TableConstraints(lookups_map, Tail(keys))

\* logup.rs 422-426: next(agg) - curr(agg) minus the first n partial sums
RECURSIVE AggregationUpTo(_, _)
AggregationUpTo(cs, n) ==
    IF n = 0
    THEN <<"Sub", next_cell(<<"LookupAggregation">>), curr_cell(<<"LookupAggregation">>)>>
    ELSE <<"Sub", AggregationUpTo(cs, n - 1), curr_cell(cs[n].col)>>

Constraints(cs) ==
    IF \E c \in 1 .. Len(cs) : IsAbort(cs[c].constraint)
    THEN Abort("Only degree one is supported in the denominator")
    ELSE <<"Ok", [c \in 1 .. (Len(cs) + 1) |->
                    IF c <= Len(cs) THEN cs[c].constraint
                    ELSE AggregationUpTo(cs, Len(cs))]>>

\* logup.rs 394-430
constraint_lookups(lookups_map) ==
    Constraints(TableConstraints(lookups_map, SortedKeys(DOMAIN lookups_map)))

\* the i-th value looked up in table id, of ar scalars, with numerator one
ReadLookup(id, i, ar) ==
    [table_id |-> id, numerator |-> <<"Lit", 1>>,
     value |-> [k \in 1 .. ar |-> curr_cell(<<"X", id, i, k>>)]]

\* a looked-up value that is a constant, and one that is a product
BadLookups ==
    {[table_id |-> 1, numerator |-> <<"Lit", 1>>, value |-> <<<<"Lit", 2>>>>],
     [table_id |-> 1, numerator |-> <<"Lit", 1>>,
      value |-> <<<<"Mul", curr_cell(<<"X", 1, 1, 1>>), curr_cell(<<"X", 1, 1, 1>>)>>>>]}

\* the maps passed to constraint_lookups: one or two tables, any number of
\* values looked up in each
LookupsMaps ==
    {[id \in ids |-> [i \in 1 .. n[id] |-> ReadLookup(id, i, ar)]] :
        ids \in {{1}, {1, 3}}, n \in [{1, 3} -> 0 .. MaxLookups], ar \in Arities}
    \cup {[id \in {1} |-> <<ReadLookup(1, 1, 1), bad>>] : bad \in BadLookups}

InitConstraints ==
    /\ scheme = 1 /\ sponge = 0 /\ FoldIdle /\ LogupIdle
    /\ KeccakIdle /\ TraceIdle
    /\ call \in {[fn |-> "constraint_lookups", lookups_map |-> m] : m \in LookupsMaps}
    /\ ret = <<"pending">>

CallConstraintLookups ==
    /\ ret = <<"pending">> /\ call.fn = "constraint_lookups"
    /\ ret' = <<"returned", constraint_lookups(call.lookups_map)>>
    /\ UNCHANGED <<call, notCall>>

NextConstraints == CallConstraintLookups

SpecConstraints == InitConstraints /\ [][NextConstraints]_vars

\* ------------------------- the lookups of the serialization circuit
\* (msm/src/serialization/constraints.rs)
\* The two tables are "RangeCheck4" and "RangeCheck15"; the environment is
\* [rangecheck4_lookups, rangecheck15_lookups].

\* the numbers of lookups constrain_lookups asserts
RangeCheck4Lookups == 20
RangeCheck15Lookups == 17

\* constraints.rs 153-168: the lookup range_check4 or range_check15 pushes
range_check(table, i) ==
    [table_id |-> table, numerator |-> <<"Lit", 1>>,
     value |-> <<curr_cell(<<"X", table, i, 1>>)>>]

\* constraints.rs 204-212, 217-225: the table's own term
rc_t_lookup(table) ==
    [table_id |-> table,
     numerator |-> curr_cell(<<"LookupMultiplicity", table>>),
     value |-> <<curr_cell(<<"LookupFixedTable", table>>)>>]

\* constraints.rs 33-79, without the table id in the denominators, which
\* the model's to_field has only for numbered tables
RECURSIVE SerLhs(_, _, _)
SerLhs(column, lks, n) ==
    IF n = 0 THEN curr_cell(column)
    ELSE <<"Mul", SerLhs(column, lks, n - 1),
           <<"Add", <<"Beta">>, combined_value(lks[n])>>>>

\* constraints.rs 234-248: one constraint per chunk of six, the partial sums
\* numbered from idx on
RECURSIVE SerChunks(_, _, _)
SerChunks(cks, c, idx) ==
    IF c > Len(cks) THEN <<>>
    ELSE <<[col |-> <<"LookupPartialSum", idx>>, lhs |-> SerLhs(<<"LookupPartialSum", idx>>, cks[c], Len(cks[c])),
            numerators |-> [i \in 1 .. Len(cks[c]) |-> cks[c][i].numerator]]>>
         \o SerChunks(cks, c + 1, idx + 1)

\* constraints.rs 199-263: the environment after the call and the chunks
\* constrained, or the panic of an assertion
constrain_lookups(self) ==
    IF Len(self.rangecheck4_lookups) # RangeCheck4Lookups
    THEN Abort("assertion failed: rangecheck4_lookups.len() == 20")
    ELSE IF Len(self.rangecheck15_lookups) # RangeCheck15Lookups
    THEN Abort("assertion failed: rangecheck15_lookups.len() == 17")
    ELSE LET l4 == Append(self.rangecheck4_lookups, rc_t_lookup("RangeCheck4"))
             l15 == Append(self.rangecheck15_lookups, rc_t_lookup("RangeCheck15"))
             c4 == SerChunks(chunks(l4, 6, 1), 1, 0)
         IN  <<"Ok", [self |-> [rangecheck4_lookups |-> l4,
                                rangecheck15_lookups |-> l15],
                      chunks |-> c4 \o SerChunks(chunks(l15, 6, 1), 1, Len(c4))]>>

\* the environment after n4 calls of range_check4 and n15 of range_check15
SerEnv(n4, n15) ==
    [rangecheck4_lookups |-> [i \in 1 .. n4 |-> range_check("RangeCheck4", i)],
     rangecheck15_lookups |-> [i \in 1 .. n15 |-> range_check("RangeCheck15", i)]]

ListCalls ==
    {[fn |-> "constraint_lookups", lookups_map |-> m] :
        m \in {m \in LookupsMaps : \A id \in DOMAIN m : Len(m[id]) <= ChunkSize + 1}}
    \cup {[fn |-> "constrain_lookups", self |-> SerEnv(n4, n15)] :
            n4 \in (RangeCheck4Lookups - 1) .. (RangeCheck4Lookups + 1),
            n15 \in (RangeCheck15Lookups - 1) .. (RangeCheck15Lookups + 1)}

InitLists ==
    /\ scheme = 1 /\ sponge = 0 /\ FoldIdle /\ LogupIdle
    /\ KeccakIdle /\ TraceIdle
    /\ call \in ListCalls
    /\ ret = <<"pending">>

CallConstrainLookups ==
    /\ ret = <<"pending">> /\ call.fn = "constrain_lookups"
    /\ ret' = <<"returned", constrain_lookups(call.self)>>
    /\ UNCHANGED <<call, notCall>>

NextLists ==
    \/ CallConstraintLookups
    \/ CallConstrainLookups

SpecLists == InitLists /\ [][NextLists]_vars

\* ------------------------------------------- the column environment
\* (msm/src/column_env.rs)
\* most witness columns of a column environment
MaxColumns == 3

\* a ColumnEnvironment is [N, N_REL, N_SEL, witness, lookup]; the witness is
\* a sequence of evaluations, the lookup <<"None">> or <<"Some", q>> with q a
\* QuotientPolynomialEnvironment [lookup_terms_evals_d8,
\* lookup_aggregation_evals_d8, lookup_counters_evals_d8,
\* fixed_tables_evals_d8].  A column is <<"Relation", i>>,
\* <<"DynamicSelector", i>>, <<"LookupPartialSum", id, i>>,
\* <<"LookupAggregation">>, <<"LookupMultiplicity", id>> or
\* <<"LookupFixedTable", id>>, indices counted from zero.

\* map[&key], which panics when the key is missing
MapIndex(map, key) ==
    IF key \in DOMAIN map THEN <<"Some", map[key]>> ELSE Abort("key not found in map")

\* vec[i], which panics when the index is out of bounds
VecIndex(vec, i) ==
    IF IsAbort(vec) THEN vec
    ELSE IF i < Len(vec[2]) THEN <<"Some", vec[2][i + 1]>>
    ELSE Abort("index out of bounds")

\* a lookup column asked of an environment without lookup gives no column
get_lookup_column_or_none(lookup, col) ==
    IF lookup[1] = "None" THEN <<"None">>
    ELSE CASE col[1] = "LookupPartialSum" ->
                VecIndex(MapIndex(lookup[2].lookup_terms_evals_d8, col[2]), col[3])
           [] col[1] = "LookupAggregation" ->
                <<"Some", lookup[2].lookup_aggregation_evals_d8>>
           [] col[1] = "LookupMultiplicity" ->
                MapIndex(lookup[2].lookup_counters_evals_d8, col[2])
           [] col[1] = "LookupFixedTable" ->
                MapIndex(lookup[2].fixed_tables_evals_d8, col[2])

\* column_env.rs 77-105: the four kinds of lookup column
get_lookup_column(lookup, col) ==
    IF lookup[1] = "None" THEN Abort("No lookup provided")
    ELSE CASE col[1] = "LookupPartialSum" ->
                VecIndex(MapIndex(lookup[2].lookup_terms_evals_d8, col[2]), col[3])
           [] col[1] = "LookupAggregation" ->
                <<"Some", lookup[2].lookup_aggregation_evals_d8>>
           [] col[1] = "LookupMultiplicity" ->
                MapIndex(lookup[2].lookup_counters_evals_d8, col[2])
           [] col[1] = "LookupFixedTable" ->
                MapIndex(lookup[2].fixed_tables_evals_d8, col[2])

\* column_env.rs 49-106
get_column(self, col) ==
    IF self.N # self.N_REL + self.N_SEL THEN Abort("assertion failed: N == N_REL + N_SEL")
    ELSE IF self.N # Len(self.witness) THEN Abort("assertion failed: N == self.witness.len()")
    ELSE CASE col[1] = "Relation" ->
                (IF col[2] < self.N_REL THEN <<"Some", self.witness[col[2] + 1]>>
                 ELSE Abort("Requested column with index"))
           [] col[1] = "DynamicSelector" ->
                (IF col[2] < self.N_SEL
                 THEN <<"Some", self.witness[self.N_REL + col[2] + 1]>>
                 ELSE Abort("Requested selector with index"))
           [] OTHER -> get_lookup_column(self.lookup, col)

\* the quotient environment of these tables, a table having this many
\* partial sums
QuotientEnv(ids, n) ==
    [lookup_terms_evals_d8 |-> [id \in ids |-> [i \in 1 .. n |-> <<"h", id, i - 1>>]],
     lookup_aggregation_evals_d8 |-> <<"phi">>,
     lookup_counters_evals_d8 |-> [id \in ids |-> <<"m", id>>],
     fixed_tables_evals_d8 |-> [id \in ids |-> <<"t", id>>]]

ColumnEnvironments ==
    {[N |-> n, N_REL |-> nrel, N_SEL |-> nsel,
      witness |-> [i \in 1 .. wlen |-> <<"w", i - 1>>], lookup |-> l] :
        n \in 0 .. MaxColumns, nrel \in 0 .. MaxColumns, nsel \in 0 .. 1,
        wlen \in 0 .. MaxColumns,
        l \in {<<"None">>} \cup {<<"Some", QuotientEnv(ids, 1)>> : ids \in {{1}, {1, 3}}}}

Columns ==
    {<<"Relation", i>> : i \in 0 .. MaxColumns}
    \cup {<<"DynamicSelector", i>> : i \in 0 .. 1}
    \cup {<<"LookupPartialSum", id, i>> : id \in TableIds, i \in 0 .. 1}
    \cup {<<"LookupAggregation">>}
    \cup {<<"LookupMultiplicity", id>> : id \in TableIds}
    \cup {<<"LookupFixedTable", id>> : id \in TableIds}

InitColumnEnv ==
    /\ scheme = 1 /\ sponge = 0 /\ FoldIdle /\ LogupIdle
    /\ KeccakIdle /\ TraceIdle
    /\ call \in {[fn |-> "get_column", self |-> e, col |-> c] :
                    e \in ColumnEnvironments, c \in Columns}
    /\ ret = <<"pending">>

CallGetColumn ==
    /\ ret = <<"pending">> /\ call.fn = "get_column"
    /\ ret' = <<"returned", get_column(call.self, call.col)>>
    /\ UNCHANGED <<call, notCall>>

NextColumnEnv == CallGetColumn

SpecColumnEnv == InitColumnEnv /\ [][NextColumnEnv]_vars

\* ------------------------------------------------------ evaluation leaves
\* (kimchi/src/folding/mod.rs 44-155)
\* An EvalLeaf is <<"Const", c>>, <<"Col", v>> or <<"Result", v>>.

\* the closures |a, b| a + b, a - b and a * b
apply_op(f, x, y) ==
    CASE f = "add" -> add(x, y)
      [] f = "sub" -> sub(x, y)
      [] f = "mul" -> mul(x, y)

\* mod.rs 100-150: iterators are zipped, a Result is updated in place
bin_op(f, l, r) ==
    CASE l[1] = "Const" /\ r[1] = "Const" -> <<"Const", apply_op(f, l[2], r[2])>>
      [] l[1] = "Const" /\ r[1] = "Col" ->
            <<"Result", [i \in DOMAIN r[2] |-> apply_op(f, l[2], r[2][i])]>>
      [] l[1] = "Col" /\ r[1] = "Const" ->
            <<"Result", [i \in DOMAIN l[2] |-> apply_op(f, l[2][i], r[2])]>>
      [] l[1] = "Col" /\ r[1] = "Col" ->
            <<"Result", [i \in 1 .. Min(Len(l[2]), Len(r[2])) |->
                            apply_op(f, l[2][i], r[2][i])]>>
      [] l[1] = "Result" /\ r[1] = "Const" ->
            <<"Result", [i \in DOMAIN l[2] |-> apply_op(f, l[2][i], r[2])]>>
      [] l[1] = "Const" /\ r[1] = "Result" ->
            <<"Result", [i \in DOMAIN r[2] |-> apply_op(f, l[2], r[2][i])]>>
      [] l[1] = "Result" /\ r[1] = "Col" ->
            <<"Result", [i \in DOMAIN l[2] |->
                            IF i <= Len(r[2]) THEN apply_op(f, l[2][i], r[2][i])
                            ELSE l[2][i]]>>
      [] l[1] = "Col" /\ r[1] = "Result" ->
            <<"Result", [i \in DOMAIN r[2] |->
                            IF i <= Len(l[2]) THEN apply_op(f, r[2][i], l[2][i])
                            ELSE r[2][i]]>>
      [] l[1] = "Result" /\ r[1] = "Result" ->
            <<"Result", [i \in DOMAIN l[2] |->
                            IF i <= Len(r[2]) THEN apply_op(f, l[2][i], r[2][i])
                            ELSE l[2][i]]>>

EvalLeaves ==
    {<<"Const", c>> : c \in F}
    \cup {<<kind, v>> : kind \in {"Col", "Result"}, v \in [RowSet -> F]}

InitEvalLeaf ==
    /\ scheme = 1 /\ sponge = 0 /\ FoldIdle /\ LogupIdle
    /\ KeccakIdle /\ TraceIdle
    /\ call \in {[fn |-> f, lhs |-> l, rhs |-> r] :
                    f \in {"add", "sub", "mul"}, l \in EvalLeaves, r \in EvalLeaves}
    /\ ret = <<"pending">>

\* impl Add, Sub and Mul for EvalLeaf (mod.rs 50-72)
CallBinOp ==
    /\ ret = <<"pending">> /\ call.fn \in {"add", "sub", "mul"}
    /\ ret' = <<"returned", bin_op(call.fn, call.lhs, call.rhs)>>
    /\ UNCHANGED <<call, notCall>>

NextEvalLeaf == CallBinOp

SpecEvalLeaf == InitEvalLeaf /\ [][NextEvalLeaf]_vars

\* ------------------------------------------ extract_terms called on its own
\* (kimchi/src/folding/expressions.rs 365-409)
TermLeaves ==
    {<<"Cell", <<"Inner", <<"x", "Curr">>>>>>, <<"Cell", <<"Inner", <<"y", "Curr">>>>>>,
     <<"Cell", <<"Constant", 2>>>>}

\* one node over these expressions
TermNodes(exps) ==
    {<<op, e1, e2>> : op \in {"Mul", "Add", "Sub"}, e1 \in exps, e2 \in exps}
    \cup {<<op, e>> : op \in {"Square", "Double"}, e \in exps}

\* expressions of depth zero to two
TermCalls ==
    {[fn |-> "extract_terms", exp |-> e] :
        e \in TermLeaves \cup TermNodes(TermLeaves)
               \cup TermNodes(TermLeaves \cup TermNodes(TermLeaves))}

InitTerms ==
    /\ scheme = 1 /\ sponge = 0 /\ FoldIdle /\ LogupIdle
    /\ KeccakIdle /\ TraceIdle
    /\ call \in TermCalls
    /\ ret = <<"pending">>

CallExtractTerms ==
    /\ ret = <<"pending">> /\ call.fn = "extract_terms"
    /\ ret' = <<"returned", extract_terms(call.exp)>>
    /\ UNCHANGED <<call, notCall>>

NextTerms == CallExtractTerms

SpecTerms == InitTerms /\ [][NextTerms]_vars

\* ------------------------------------------------- the steps of a Keccak hash
\* (zkwasm/src/keccak/environment.rs 50-78)
\* rounds of the permutation
ROUNDS == 24
\* most blocks of a preimage
MaxBlocks == 2

\* A KeccakStep is <<"Sponge", <<"Absorb", kind>>>>, <<"Sponge", <<"Squeeze">>>>
\* or <<"Round", i>>; curr_step is <<"Some", step>> or <<"None">>.
AbsorbStep(kind) == <<"Some", <<"Sponge", <<"Absorb", kind>>>>>>
SqueezeStep == <<"Some", <<"Sponge", <<"Squeeze">>>>>>
RoundStep(i) == <<"Some", <<"Round", i>>>>

\* an update that squeezes after the last round of the first block
update_step_one_block(step, left) ==
    IF step[1] = "None" THEN Abort("No step to update")
    ELSE CASE step[2][1] = "Sponge" ->
                (IF step[2][2][1] = "Absorb"
                 THEN <<RoundStep(0), left>>
                 ELSE <<<<"None">>, left>>)
           [] step[2][1] = "Round" ->
                (IF step[2][2] < ROUNDS - 1
                 THEN <<RoundStep(step[2][2] + 1), left>>
                 ELSE <<SqueezeStep, left - 1>>)

\* KeccakEnv::update_step: <<curr_step, blocks_left_to_absorb>> after it,
\* or the abort
update_step(step, left) ==
    IF step[1] = "None" THEN Abort("No step to update")
    ELSE CASE step[2][1] = "Sponge" ->
                (IF step[2][2][1] = "Absorb"
                 THEN <<RoundStep(0), left>>
                 ELSE <<<<"None">>, left>>)
           [] step[2][1] = "Round" ->
                (IF step[2][2] < ROUNDS - 1
                 THEN <<RoundStep(step[2][2] + 1), left>>
                 ELSE <<CASE left - 1 = 0 -> SqueezeStep
                          [] left - 1 = 1 -> AbsorbStep("Last")
                          [] OTHER -> AbsorbStep("Middle"),
                        left - 1>>)

\* a hash starts at an absorb with at least one block left
InitKeccak ==
    /\ scheme = 1 /\ sponge = 0 /\ FoldIdle /\ CallIdle /\ LogupIdle /\ TraceIdle
    /\ curr_step \in {AbsorbStep(kind) : kind \in {"First", "Middle", "Last", "Only"}}
    /\ blocks_left_to_absorb \in 1 .. MaxBlocks
    /\ blocks = blocks_left_to_absorb
    /\ visited = <<>>
    /\ update_ret = <<>>

\* update_step is called, unless an earlier call aborted
UpdateStep ==
    /\ curr_step # <<>> /\ ~ (update_ret # <<>> /\ IsAbort(update_ret))
    /\ LET next == update_step(curr_step, blocks_left_to_absorb)
       IN  /\ visited' = Append(visited, curr_step)
           /\ IF IsAbort(next)
              THEN /\ update_ret' = next
                   /\ UNCHANGED <<curr_step, blocks_left_to_absorb>>
              ELSE /\ update_ret' = <<"Ok">>
                   /\ curr_step' = next[1]
                   /\ blocks_left_to_absorb' = next[2]
    /\ UNCHANGED <<blocks, notKeccak>>

NextKeccak == UpdateStep

SpecKeccak == InitKeccak /\ [][NextKeccak]_vars

\* ------------------------------------------------------------ the MIPS trace
\* (o1vm/src/mips/trace.rs)
\* rows of the domain
DomainSize == 2
\* relation columns and selector columns of an instruction
N_MIPS_REL_COLS == 2
N_MIPS_SEL_COLS == 1
N_MIPS_COLS == N_MIPS_REL_COLS + N_MIPS_SEL_COLS

\* Instruction::iter().flat_map(|x| x.into_iter()), in order
Instructions == <<"Add", "Load">>
InstructionSet == {Instructions[k] : k \in DOMAIN Instructions}

\* DecomposableTracer::new (trace.rs 31-53): every column of every
\* instruction is Vec::with_capacity(domain_size), empty
new(domain_size) ==
    [domain_size |-> domain_size,
     witness |-> [instr \in InstructionSet |-> [i \in 1 .. N_MIPS_COLS |-> <<>>]]]

\* the capacity of a column, the one it was allocated with
capacity(self) == self.domain_size

\* push_row that pushes whatever the length of the column
push_row_unchecked(self, opcode, row) ==
    [self EXCEPT !.witness[opcode] =
        [i \in 1 .. N_MIPS_COLS |->
            IF i <= N_MIPS_REL_COLS THEN Append(@[i], row[i]) ELSE @[i]]]

\* push_row (trace.rs 55-67): a value is pushed on a column that is below
\* its capacity
push_row(self, opcode, row) ==
    [self EXCEPT !.witness[opcode] =
        [i \in 1 .. N_MIPS_COLS |->
            IF i <= N_MIPS_REL_COLS /\ Len(@[i]) < capacity(self)
            THEN Append(@[i], row[i]) ELSE @[i]]]

\* for _ in 0..rows_to_add { self.push_row(opcode, row) }
RECURSIVE PushRows(_, _, _, _)
PushRows(self, opcode, row, n) ==
    IF n = 0 THEN self ELSE PushRows(push_row(self, opcode, row), opcode, row, n - 1)

\* pad_with_row (trace.rs 69-81): <<"Ok", the trace, rows_to_add>>, or the
\* abort
pad_with_row(self, opcode, row) ==
    LET len == Len(self.witness[opcode][1])
    IN  IF ~ (len <= self.domain_size)
        THEN Abort("assertion failed: len <= self.domain_size")
        ELSE <<"Ok", PushRows(self, opcode, row, self.domain_size - len),
               self.domain_size - len>>

\* DecomposableTracer::in_circuit: the instruction holds a row
in_circuit(self, opcode) == Len(self.witness[opcode][1]) # 0

\* pad_dummy (trace.rs 95-102)
pad_dummy(self, opcode) ==
    IF ~ in_circuit(self, opcode) THEN <<"Ok", self, 0>>
    ELSE pad_with_row(self, opcode,
                      [i \in 1 .. N_MIPS_REL_COLS |-> self.witness[opcode][i][1]])

\* pad_witnesses (trace.rs 104-108), the first n instructions padded
RECURSIVE PadUpTo(_, _)
PadUpTo(self, n) ==
    IF n = 0 THEN <<"Ok", self, <<>> >>
    ELSE LET prev == PadUpTo(self, n - 1)
         IN  IF IsAbort(prev) THEN prev
             ELSE <<"Ok", pad_dummy(prev[2], Instructions[n])[2], <<>> >>

pad_witnesses(self) == PadUpTo(self, Len(Instructions))

\* the rows passed to the trace
TraceRows == {[i \in 1 .. N_MIPS_REL_COLS |-> v + i - 1] : v \in 0 .. MaxVal}

\* the rows each instruction holds in its first column
RowsOf(self) == [instr \in InstructionSet |-> Len(self.witness[instr][1])]

InitTrace ==
    /\ scheme = 1 /\ sponge = 0 /\ FoldIdle /\ CallIdle /\ LogupIdle /\ KeccakIdle
    /\ trace = new(DomainSize)
    /\ trace_call = [fn |-> "none"] /\ trace_ret = <<>>
    /\ rows_before = RowsOf(new(DomainSize))

\* no call on the trace has aborted
TraceRunning == IF trace_ret = <<>> THEN TRUE ELSE ~ IsAbort(trace_ret)

\* a call that returns <<"Ok", the trace, its result>> or aborts
TraceCall(c, result) ==
    /\ trace_call' = c
    /\ rows_before' = RowsOf(trace)
    /\ IF IsAbort(result)
       THEN trace_ret' = result /\ UNCHANGED trace
       ELSE trace_ret' = <<"Ok", result[3]>> /\ trace' = result[2]
    /\ UNCHANGED notTrace

PushRow ==
    /\ TraceRunning
    /\ \E opcode \in InstructionSet, row \in TraceRows :
          TraceCall([fn |-> "push_row", opcode |-> opcode, row |-> row],
                    <<"Ok", push_row(trace, opcode, row), <<>> >>)

PadWithRow ==
    /\ TraceRunning
    /\ \E opcode \in InstructionSet, row \in TraceRows :
          TraceCall([fn |-> "pad_with_row", opcode |-> opcode, row |-> row],
                    pad_with_row(trace, opcode, row))

PadDummy ==
    /\ TraceRunning
    /\ \E opcode \in InstructionSet :
          TraceCall([fn |-> "pad_dummy", opcode |-> opcode],
                    pad_dummy(trace, opcode))

PadWitnesses ==
    /\ TraceRunning
    /\ TraceCall([fn |-> "pad_witnesses"], pad_witnesses(trace))

NextTrace == PushRow \/ PadWithRow \/ PadDummy \/ PadWitnesses

SpecTrace == InitTrace /\ [][NextTrace]_vars

\* ------------------------------------------------------------------ claims
Started == pc # "idle"
Combined == pc \in {"instance", "done"}
Sides == {1, 2}
Input(i) == IF i = 1 THEN a ELSE b

\* vectors and commitments a caller could pass to relax as "zero"
SomeVecs == {ZeroVec, [j \in RowSet |-> one]}

\* C1: folding two plain pairs that satisfy every constraint, with a nonzero
\* challenge, returns a relaxed pair on which the final expression returned
\* by FoldingScheme::new is zero on every row.
C1_FoldCompleteness ==
    (Done /\ ~from_fold[1] /\ ~from_fold[2] /\ challenge # 0
        /\ Satisfies(scheme, a[2]) /\ Satisfies(scheme, b[2]))
    => \A j \in RowSet : Eval(FinalExpression[scheme], instance, witness, j) = 0

\* C2: relax is idempotent on instances, witnesses and pairs, and relaxing
\* a relaxed object returns it unchanged whatever zero vector or zero
\* commitment is passed; the fold leaves a relaxed input as it was passed.
C2_RelaxIdempotent ==
    Started =>
        \A i \in Sides : \A zc \in F, zc2 \in F : \A zp \in SomeVecs, zp2 \in SomeVecs :
            LET x == Input(i)
                rp == relaxable_pair_relax(x, zp, zc)
                ri == relaxable_instance_relax(x[1], zc)
                rw == relaxable_witness_relax(x[2], zp)
            IN  /\ relaxable_pair_relax(rp, zp2, zc2) = rp
                /\ relaxable_instance_relax(ri, zc2) = ri
                /\ relaxable_witness_relax(rw, zp2) = rw
                /\ from_fold[i] =>
                    /\ rp = x /\ ri = x[1] /\ rw = x[2]
                    /\ pc = "relaxed" => env[i] = x

\* C2 witness: the fold has relaxed a pair that was already relaxed
C2_Witness == pc = "relaxed" /\ from_fold[1] /\ ~from_fold[2]

\* C3: relaxing a plain instance gives u = 1, the commitment of the all-zero
\* polynomial as error commitment and no extended commitment; relaxing a
\* plain witness gives the all-zero error vector over the whole domain and
\* no extended column.
C3_RelaxPlain ==
    pc = "relaxed" =>
        \A i \in Sides : ~from_fold[i] =>
            /\ env[i][1].u = 1
            /\ env[i][1].error_commitment
                 = commit_evaluations_non_hiding([j \in RowSet |-> 0])
            /\ env[i][1].extended_instance.extended = <<>>
            /\ env[i][1].extended_instance.instance = Input(i)[1]
            /\ DOMAIN env[i][2].error_vec = RowSet
            /\ \A j \in RowSet : env[i][2].error_vec[j] = 0
            /\ DOMAIN env[i][2].extended_witness.extended = {}
            /\ env[i][2].extended_witness.witness = Input(i)[2]

\* C3 witness: the fold has relaxed two plain pairs
C3_Witness == pc = "relaxed" /\ ~from_fold[1] /\ ~from_fold[2]

Unfolded(ins) ==
    /\ ins.u = 1
    /\ ins.error_commitment = commit_evaluations_non_hiding([j \in RowSet |-> 0])

\* C4 as stated: a relaxed instance has u = 1 and the zero error commitment
\* if and only if it has never been the output of a fold.
C4_UnfoldedIffNeverFolded ==
    /\ Started => \A i \in Sides : Unfolded(env[i][1]) <=> ~from_fold[i]
    /\ Combined => ~Unfolded(instance)

\* C4 amended: a relaxed instance that has never been the output of a fold
\* has u = 1 and the zero error commitment.
C4_NeverFoldedIsUnfolded ==
    Started => \A i \in Sides : ~from_fold[i] => Unfolded(env[i][1])

\* C4 witness: a fold has returned from two pairs never folded before
C4_Witness == Done /\ ~from_fold[1] /\ ~from_fold[2] /\ challenge # 0

\* C5: combine gives u = u_a + r * u_b, every extended commitment
\* a_i + r * b_i and every extended witness column pointwise
\* a_i[j] + r * b_i[j], over the extended-column indices of the inputs.
C5_CombineAffine ==
    /\ Combined =>
        /\ instance.u = (env[1][1].u + challenge * env[2][1].u) % P
        /\ Len(instance.extended_instance.extended)
             = Len(env[1][1].extended_instance.extended)
        /\ Len(instance.extended_instance.extended)
             = Len(env[2][1].extended_instance.extended)
        /\ \A i \in 1 .. Len(instance.extended_instance.extended) :
              instance.extended_instance.extended[i]
                = (env[1][1].extended_instance.extended[i]
                   + challenge * env[2][1].extended_instance.extended[i]) % P
    /\ Done =>
        /\ DOMAIN witness.extended_witness.extended
             = DOMAIN env[1][2].extended_witness.extended
        /\ DOMAIN witness.extended_witness.extended
             = DOMAIN env[2][2].extended_witness.extended
        /\ \A i \in DOMAIN witness.extended_witness.extended : \A j \in RowSet :
              witness.extended_witness.extended[i][j]
                = (env[1][2].extended_witness.extended[i][j]
                   + challenge * env[2][2].extended_witness.extended[i][j]) % P

\* C5 witness: a fold with extended columns has combined with a challenge
\* other than 0 and 1
C5_Witness ==
    /\ Done /\ challenge \notin {0, 1}
    /\ Len(instance.extended_instance.extended) > 0
    /\ \E j \in RowSet : env[2][2].extended_witness.extended[0][j] # 0

\* what RelaxedInstance::combine and RelaxedWitness::combine return on the
\* two sides of the fold
CombinedInstance == relaxed_instance_combine(env[1][1], env[2][1], challenge)
CombinedWitness == relaxed_witness_combine(env[1][2], env[2][2], challenge)

\* the error commitment and the error vector of the fold's output before
\* sub_errors took r * e0 + r^2 * e1 off
ErrorBeforeSub ==
    (instance.error_commitment + challenge * error_commitments[1]
        + challenge * challenge * error_commitments[2]) % P
ErrorVecBeforeSub(j) ==
    (witness.error_vec[j] + challenge * error[1][j]
        + challenge * challenge * error[2][j]) % P

\* C6 as stated: combine blends the error term like every other field, the
\* error commitment is E_a + r * E_b and the error vector e_a[j] + r * e_b[j].
C6_ErrorBlendedLinearly ==
    /\ Combined =>
        /\ CombinedInstance.error_commitment
             = (env[1][1].error_commitment
                + challenge * env[2][1].error_commitment) % P
        /\ ErrorBeforeSub = CombinedInstance.error_commitment
    /\ Done =>
        \A j \in RowSet :
            /\ CombinedWitness.error_vec[j]
                 = (env[1][2].error_vec[j] + challenge * env[2][2].error_vec[j]) % P
            /\ ErrorVecBeforeSub(j) = CombinedWitness.error_vec[j]

\* C6 amended: combine blends the error term with the cube of the
\* challenge, the error commitment is E_a + r^3 * E_b and the error vector
\* e_a[j] + r^3 * e_b[j].
C6_ErrorBlendedWithCube ==
    /\ Combined =>
        /\ CombinedInstance.error_commitment
             = (env[1][1].error_commitment
                + challenge * challenge * challenge * env[2][1].error_commitment) % P
        /\ ErrorBeforeSub = CombinedInstance.error_commitment
    /\ Done =>
        \A j \in RowSet :
            /\ CombinedWitness.error_vec[j]
                 = (env[1][2].error_vec[j]
                    + challenge * challenge * challenge * env[2][2].error_vec[j]) % P
            /\ ErrorVecBeforeSub(j) = CombinedWitness.error_vec[j]

\* C6 witness: a fold has combined a right side whose error term is not
\* zero, with a challenge whose cube differs from it
C6_Witness ==
    /\ Done
    /\ (challenge * challenge * challenge) % P # challenge
    /\ env[2][1].error_commitment # 0
    /\ \E j \in RowSet : env[2][2].error_vec[j] # 0

\* C7: combine_and_sub_error is combine with r * e0 + r^2 * e1 taken off the
\* error term, pointwise on the error vector and on the error commitment,
\* every other field being that of combine.
C7_CombineAndSubError ==
    /\ Combined =>
        /\ instance.u = CombinedInstance.u
        /\ instance.extended_instance = CombinedInstance.extended_instance
        /\ (instance.error_commitment + challenge * error_commitments[1]
              + challenge * challenge * error_commitments[2]) % P
             = CombinedInstance.error_commitment
    /\ Done =>
        /\ witness.extended_witness = CombinedWitness.extended_witness
        /\ DOMAIN witness.error_vec = RowSet
        /\ \A j \in RowSet :
              (witness.error_vec[j] + challenge * error[1][j]
                 + challenge * challenge * error[2][j]) % P
                = CombinedWitness.error_vec[j]

\* C7 witness: a fold has subtracted two nonzero cross terms with a
\* challenge other than 0 and 1
C7_Witness ==
    /\ Done /\ challenge \notin {0, 1}
    /\ \E j \in RowSet : error[1][j] # 0
    /\ \E j \in RowSet : error[2][j] # 0
    /\ error_commitments[1] # 0 /\ error_commitments[2] # 0

\* C8: the challenge is derived from the commitments of e0 and e1, after
\* both were computed and committed and before anything is combined, and
\* instance and witness are combined with that one challenge.
C8_ChallengeOrder ==
    /\ pc \in {"relaxed", "extended", "errors", "committed"} =>
          /\ absorbed = <<>>
          /\ DOMAIN instance = {} /\ DOMAIN witness = {}
    /\ pc \in {"relaxed", "extended"} => error = <<>> /\ error_commitments = <<>>
    /\ pc = "errors" => error_commitments = <<>>
    /\ pc \in {"challenged", "instance", "done"} =>
          /\ Len(error) = 2
          /\ error_commitments = <<commit_evaluations_non_hiding(error[1]),
                                   commit_evaluations_non_hiding(error[2])>>
          /\ absorbed = error_commitments
          /\ challenge = sponge_challenge(sponge, absorbed)
    /\ pc = "challenged" => DOMAIN instance = {} /\ DOMAIN witness = {}
    /\ pc = "instance" => DOMAIN witness = {}
    /\ Combined =>
          instance = instance_combine_and_sub_error(env[1][1], env[2][1], challenge,
                                                    error_commitments)
    /\ Done =>
          witness = witness_combine_and_sub_error(env[1][2], env[2][2], challenge,
                                                  error)

\* C8 witness: a challenge other than 0 was coined from nonzero error
\* commitments and both sides were combined
C8_Witness ==
    /\ Done /\ challenge # 0
    /\ error_commitments[1] # 0 /\ error_commitments[2] # 0

\* the scalars and points the documentation of Instance::to_absorb lists
DocumentedAbsorb ==
    LET l == relaxed_to_absorb(env[1][1])
        r == relaxed_to_absorb(env[2][1])
    IN  <<l[1] \o r[1], l[2] \o r[2] \o error_commitments>>

\* C9: before the challenge is coined the sponge absorbs the scalars of L
\* and R with their u, then the commitments of L, the commitments of R and
\* the two error commitments t_0, t_1.
C9_AbsorbsInstances ==
    pc \in {"challenged", "instance", "done"} =>
        absorbed = DocumentedAbsorb[1] \o DocumentedAbsorb[2]

ExtendedCount(x) == Cardinality(DOMAIN x.extended)

\* C11: combining two extended instances, or two extended witnesses, whose
\* numbers of extended columns differ aborts and returns no combined object.
C11_MismatchAborts ==
    ((Returned("ExtendedInstance::combine") \/ Returned("ExtendedWitness::combine"))
        /\ ExtendedCount(call.a) # ExtendedCount(call.b))
    => IsPanic(ret[2])


\* the value over the integers of a FoldingExp, given the value of each
\* column
RECURSIVE IntValue(_, _)
IntValue(e, val) ==
    CASE e[1] = "Cell" ->
            (IF e[2][1] = "Inner" THEN val[e[2][2][1]] ELSE e[2][2])
      [] e[1] = "Double" -> 2 * IntValue(e[2], val)
      [] e[1] = "Square" -> IntValue(e[2], val) * IntValue(e[2], val)
      [] e[1] = "Add" -> IntValue(e[2], val) + IntValue(e[3], val)
      [] e[1] = "Sub" -> IntValue(e[2], val) - IntValue(e[3], val)
      [] e[1] = "Mul" -> IntValue(e[2], val) * IntValue(e[3], val)

RECURSIVE IntPow(_, _)
IntPow(v, n) == IF n = 0 THEN 1 ELSE v * IntPow(v, n - 1)

\* values of the columns that tell the powers apart
IntValues == [WitnessCols \cup FixedCols -> {2, 3}]

\* C12 under another node: the power keeps its value inside a difference,
\* and its abort aborts the whole rewriting.
C12_PowUnderSub ==
    (Returned("simplify") /\ call.exp[1] = "BinOp") =>
        /\ call.exp[3][3] \in 2 .. 8 =>
            /\ ~IsAbort(ret[2])
            /\ \A val \in IntValues :
                  IntValue(ret[2], val)
                    = IntPow(val["x"], call.exp[3][3]) - val["y"]
        /\ call.exp[3][3] > 8 => IsAbort(ret[2])

\* C12: simplify rewrites Pow(e, p) into multiplications and squarings whose
\* value is e^p for every p from 2 to 8, and aborts for every larger p.
C12_PowToMul ==
    /\ C12_PowUnderSub
    /\ (Returned("simplify") /\ call.exp[1] = "Pow") =>
        /\ call.exp[3] \in 2 .. 8 =>
            /\ ~IsAbort(ret[2])
            /\ \A val \in IntValues :
                  IntValue(ret[2], val)
                    = IntPow(IntValue(simplify(call.exp[2]), val), call.exp[3])
        /\ call.exp[3] > 8 => IsAbort(ret[2])

\* C12 witness: simplify has rewritten a seventh power of a sum
C12_Witness ==
    /\ Returned("simplify")
    /\ call.exp = <<"Pow", <<"BinOp", "Add", X, Y>>, 7>>
    /\ ~IsAbort(ret[2])


\* the degree of a FoldingExp in the folded quantities, counted as a number
RECURSIVE TrueDegree(_)
TrueDegree(e) ==
    CASE e[1] = "Cell" ->
            (IF e[2][1] = "Inner"
             THEN (IF e[2][2][1] \in WitnessCols THEN 1 ELSE 0)
             ELSE IF e[2][1] \in {"WitnessExtended", "Error", "Challenge", "Alpha"}
             THEN 1 ELSE 0)
      [] e[1] = "Double" -> TrueDegree(e[2])
      [] e[1] = "Square" -> 2 * TrueDegree(e[2])
      [] e[1] = "Mul" -> TrueDegree(e[2]) + TrueDegree(e[3])
      [] e[1] \in {"Add", "Sub"} ->
            (IF TrueDegree(e[2]) >= TrueDegree(e[3]) THEN TrueDegree(e[2])
             ELSE TrueDegree(e[3]))

DegreeNames == <<"Zero", "One", "Two">>

\* the three buckets of a compiled expression
Buckets(exp) == <<exp.degree_0, exp.degree_1, exp.degree_2>>

\* the call has returned a value, not a panic
ReturnedOk(fn) == Returned(fn) /\ ~IsAbort(ret[2])

\* C13: every term stored in bucket degree_k has degree exactly k, the
\* degree being computed recursively; a degree over two is a panic, and no
\* term of degree over two is in a bucket.
C13_BucketDegrees ==
    /\ Returned("folding_degree") =>
          IF TrueDegree(call.exp) <= 2
          THEN ret[2] = DegreeNames[TrueDegree(call.exp) + 1]
          ELSE ret[2] = "panic"
    /\ ReturnedOk("FoldingScheme::new") =>
          \A k \in 0 .. 2 :
            \A i \in 1 .. Len(Buckets(ret[2][2].expression)[k + 1]) :
                TrueDegree(Buckets(ret[2][2].expression)[k + 1][i].exp) = k

\* C13 witness: a compilation has filled the three buckets
C13_Witness ==
    /\ ReturnedOk("FoldingScheme::new")
    /\ \A k \in 1 .. 3 : Len(Buckets(ret[2][2].expression)[k]) > 0


\* values given to the columns, the alphas, the extended columns, u, the
\* error and the challenge
FinalValues ==
    {[cols |-> c, alphas |-> <<2, 3>>, ext |-> <<5, 7, 11, 13>>,
      u |-> 2, error |-> 1, challenge |-> 3] : c \in IntValues}

\* the value over the integers of a FoldingCompatibleExpr
RECURSIVE FinalValue(_, _)
FinalValue(e, v) ==
    CASE e[1] = "Constant" -> e[2]
      [] e[1] = "Challenge" -> v.challenge
      [] e[1] = "Cell" -> v.cols[e[2][1]]
      [] e[1] = "Double" -> 2 * FinalValue(e[2], v)
      [] e[1] = "Square" -> FinalValue(e[2], v) * FinalValue(e[2], v)
      [] e[1] = "BinOp" ->
            (CASE e[2] = "Add" -> FinalValue(e[3], v) + FinalValue(e[4], v)
               [] e[2] = "Sub" -> FinalValue(e[3], v) - FinalValue(e[4], v)
               [] e[2] = "Mul" -> FinalValue(e[3], v) * FinalValue(e[4], v))
      [] e[1] = "Extensions" ->
            (CASE e[2][1] = "U" -> v.u
               [] e[2][1] = "Error" -> v.error
               [] e[2][1] = "ExtendedWitness" -> v.ext[e[2][2] + 1]
               [] e[2][1] = "Alpha" -> v.alphas[e[2][2] + 1])

\* the sum of the first n terms of a bucket, each with its sign and times
\* the alpha of its own constraint only
RECURSIVE OwnAlphaSum(_, _, _)
OwnAlphaSum(terms, n, v) ==
    IF n = 0 THEN 0
    ELSE OwnAlphaSum(terms, n - 1, v)
         + (IF terms[n].sign = "Pos" THEN 1 ELSE -1)
           * v.alphas[terms[n].alpha + 1]
           * FinalValue(into_compatible(terms[n].exp), v)

OwnAlphaFinal(exp, v) ==
    v.u * v.u * OwnAlphaSum(exp.degree_0, Len(exp.degree_0), v)
    + v.u * OwnAlphaSum(exp.degree_1, Len(exp.degree_1), v)
    + OwnAlphaSum(exp.degree_2, Len(exp.degree_2), v)
    + v.error

\* C14: the final expression returned by FoldingScheme::new is
\* u^2 * D0 + u * D1 + D2 + Error, where Dk is the sum of the terms of
\* bucket degree_k, each with its sign and times only the alpha of its own
\* constraint.
C14_FinalExpression ==
    ReturnedOk("FoldingScheme::new") =>
        \A v \in FinalValues :
            FinalValue(ret[2][2].final_expression, v)
              = OwnAlphaFinal(ret[2][2].expression, v)


\* the place of a transcript operation in the order of Env::create
Rank(op) ==
    CASE op[1] = "absorb" /\ op[2] = "m" -> 1
      [] op[1] = "challenge" /\ op[2] = "vector_lookup_combiner" -> 2
      [] op[1] = "challenge" /\ op[2] = "beta" -> 3
      [] op[1] = "absorb" /\ op[2] = "h" -> 4
      [] op[1] = "absorb" /\ op[2] = "t" -> 5
      [] op[1] = "absorb" /\ op[2] = "sum" -> 6

\* the positions of the transcript that hold an operation of this rank
Ranked(n) == {i \in 1 .. Len(transcript) : Rank(transcript[i]) = n}

C16_MultiplicitiesAbsorbed ==
    Ranked(2) # {} =>
        \A k \in 1 .. Len(lookups) :
            \E i \in Ranked(1) :
                /\ transcript[i][3] = lookups[k].table_id
                /\ transcript[i][4] = commit_evaluations_non_hiding(lookups[k].m)


\* the states in which Env::create has panicked
LogupAborted ==
    lpc \in {"Logup accumulator must be zero",
             "assertion failed: evals.len() == domain.d1.size"}

\* the reads of a witness, its table column excepted, that look up the value
\* of row j of the table
ReadsOf(w, j) ==
    {c \in (1 .. (Len(w.f) - 1)) \X RowSet :
        w.f[c[1]][c[2]].value = w.f[Len(w.f)][j].value}

\* the witness of a fixed table: every read has numerator one and a value
\* of the table, and the multiplicities count the reads exactly
IsValidWitness(w) ==
    /\ is_fixed(w.table_id) /\ Len(w.f) >= 2
    /\ \A i \in 1 .. Len(w.f) : \A j \in RowSet : w.f[i][j].table_id = w.table_id
    /\ \A i \in 1 .. (Len(w.f) - 1) : \A j \in RowSet :
          /\ w.f[i][j].numerator = 1
          /\ \E j2 \in RowSet : w.f[i][j].value = w.f[Len(w.f)][j2].value
    /\ \A j \in RowSet :
          /\ w.m[j] = Cardinality(ReadsOf(w, j)) % Q
          /\ w.f[Len(w.f)][j].numerator = fneg(w.m[j])

\* every witness of the list is valid, each for a table of its own
ValidInput ==
    /\ \A k \in 1 .. Len(lookups) : IsValidWitness(lookups[k])
    /\ \A k1, k2 \in 1 .. Len(lookups) :
          lookups[k1].table_id = lookups[k2].table_id => k1 = k2

\* the sum of all the inner sums on row j
InnerSums(j) == AddRow(0, lookup_terms_map, SortedKeys(DOMAIN lookup_terms_map), j)

RECURSIVE FPow(_, _)
FPow(x, n) == IF n = 0 THEN 1 ELSE fmul(x, FPow(x, n - 1))

\* r * x_1 + r^2 * x_2 + ... + r^n * x_n
RECURSIVE Combination(_, _, _)
Combination(value, n, r) ==
    IF n = 0 THEN 0
    ELSE fadd(Combination(value, n - 1, r), fmul(FPow(r, n), value[n]))

\* beta + the combination of the value + the table id
Denominator(lg) ==
    fadd(beta, fadd(Combination(lg.value, Len(lg.value), vector_lookup_combiner),
                    to_field(lg.table_id)))

\* the assertion on the accumulator has been reached
Aggregated ==
    lpc \in {"Logup accumulator must be zero", "absorb_aggregation", "done"}

\* the list is one witness with one looked-up value changed
ChangedInput == Len(lookups) = 1 /\ lookups[1] \in ChangedWitnesses
\* the list is one witness with one multiplicity lowered
LoweredInput == Len(lookups) = 1 /\ lookups[1] \in LoweredWitnesses

\* the witness a changed one was made from
Original(w) ==
    CHOOSE w0 \in ValidWitnesses :
        /\ w0.m = w.m /\ w0.table_id = w.table_id /\ Len(w0.f) = Len(w.f)
        /\ \A i \in 1 .. Len(w.f) : \A j \in RowSet :
              <<i, j>> # <<1, 1>> => w0.f[i][j] = w.f[i][j]

\* the row of the table whose multiplicity does not count its reads
LoweredRow(w) ==
    CHOOSE j \in RowSet : w.m[j] # Cardinality(ReadsOf(w, j)) % Q

\* C18 as stated: when a looked-up value is changed or a multiplicity is
\* lowered without updating the other, Env::create aborts on the accumulator
\* whatever the challenges, and returns no environment.
C18_AbortsWhateverChallenges ==
    ((ChangedInput \/ LoweredInput) /\ Aggregated)
        => lpc = "Logup accumulator must be zero"

\* C18 amended: with one looked-up value changed, Env::create aborts on the
\* accumulator exactly when the combiner gives the changed value and the
\* original one different denominators; with one multiplicity lowered by
\* one, exactly when the denominator of that row of the table is not zero.
C18_AbortsUnlessCollision ==
    /\ (ChangedInput /\ Aggregated) =>
          (lpc = "Logup accumulator must be zero"
             <=> Denominator(lookups[1].f[1][1])
                   # Denominator(Original(lookups[1]).f[1][1]))
    /\ (LoweredInput /\ Aggregated) =>
          (lpc = "Logup accumulator must be zero"
             <=> Denominator(lookups[1].f[Len(lookups[1].f)][LoweredRow(lookups[1])]) # 0)

\* C18 witness: a changed value and a lowered multiplicity have each made
\* Env::create abort on the accumulator
C18_Witness ==
    /\ ChangedInput
    /\ lpc = "Logup accumulator must be zero"
    /\ vector_lookup_combiner # 0

\* a lowered multiplicity has made Env::create abort
C18_WitnessLowered ==
    LoweredInput /\ lpc = "Logup accumulator must be zero"


\* the partial-sum constraints among the constraints returned: all but the
\* last one
PartialSumConstraints(cs) == 1 .. (Len(cs) - 1)

\* C19 as stated: every partial-sum constraint emitted by constraint_lookups
\* has degree at most MAX_SUPPORTED_DEGREE - 2, for any number of lookups.
C19_DegreeAtMostChunk ==
    ReturnedOk("constraint_lookups") =>
        \A c \in PartialSumConstraints(ret[2][2]) :
            ExprDegree(ret[2][2][c]) <= MAX_SUPPORTED_DEGREE - 2

\* how many lookups the chunks of a table hold, the table's own term
\* included, when n values are looked up in it
ChunkLengths(n) ==
    [c \in 1 .. (((n + 1) + ChunkSize - 1) \div ChunkSize) |->
        IF c * ChunkSize <= n + 1 THEN ChunkSize ELSE (n + 1) % ChunkSize]

\* the constraints of the tables below id come first
FirstConstraint(m, id) ==
    IF id = 1 \/ 1 \notin DOMAIN m THEN 0 ELSE Len(ChunkLengths(Len(m[1])))

\* C19 amended: every chunk holds at most MAX_SUPPORTED_DEGREE - 2 lookups,
\* and the partial-sum constraint of a chunk of k lookups has degree k + 1,
\* so at most MAX_SUPPORTED_DEGREE - 1, for any number of lookups.
C19_DegreeChunkPlusOne ==
    ReturnedOk("constraint_lookups") =>
        /\ \A c \in PartialSumConstraints(ret[2][2]) :
              ExprDegree(ret[2][2][c]) <= MAX_SUPPORTED_DEGREE - 1
        /\ \A id \in DOMAIN call.lookups_map :
              \A c \in 1 .. Len(ChunkLengths(Len(call.lookups_map[id]))) :
                  ExprDegree(ret[2][2][FirstConstraint(call.lookups_map, id) + c])
                    = ChunkLengths(Len(call.lookups_map[id]))[c] + 1

\* C19 witness: the constraints of a table in which more values are looked
\* up than two chunks hold
C19_Witness ==
    /\ ReturnedOk("constraint_lookups")
    /\ Len(call.lookups_map[1]) = 2 * ChunkSize
    /\ Len(ret[2][2]) >= 4


\* the witness of the list that carries this table id
WitnessOf(id) == lookups[CHOOSE k \in 1 .. Len(lookups) : lookups[k].table_id = id]

\* the table ids of the list differ from each other
DistinctTables ==
    \A k1, k2 \in 1 .. Len(lookups) :
        lookups[k1].table_id = lookups[k2].table_id => k1 = k2

\* the lookups the circuit declares for the witnesses of the list: every
\* column of a witness but its last one, the table's own
LookupsMapOf(ls) ==
    [id \in {ls[k].table_id : k \in 1 .. Len(ls)} |->
        [i \in 1 .. (Len(WitnessOf(id).f) - 1) |->
            ReadLookup(id, i, Len(WitnessOf(id).f[i][1].value))]]

\* the value of a column on row j: the partial sums are those Env::create
\* computed, the other columns are read from the witness
ColumnValue(col, j) ==
    CASE col[1] = "X" -> WitnessOf(col[2]).f[col[3]][j].value[col[4]]
      [] col[1] = "LookupPartialSum" -> lookup_terms_map[col[2]][col[3] + 1][j]
      [] col[1] = "LookupMultiplicity" -> WitnessOf(col[2]).m[j]
      [] col[1] = "LookupFixedTable" ->
            WitnessOf(col[2]).f[Len(WitnessOf(col[2]).f)][j].value[1]
      [] col[1] = "LookupAggregation" -> lookup_aggregation[j]

\* the value of an expression on row j, with the challenges Env::create coined
RECURSIVE ExprValue(_, _)
ExprValue(e, j) ==
    CASE e[1] = "Lit" -> e[2]
      [] e[1] = "Beta" -> beta
      [] e[1] = "JointCombiner" -> vector_lookup_combiner
      [] e[1] = "Cell" ->
            ColumnValue(e[2], IF e[3] = "Curr" THEN j ELSE (j % Rows) + 1)
      [] e[1] = "Neg" -> fneg(ExprValue(e[2], j))
      [] e[1] = "Add" -> fadd(ExprValue(e[2], j), ExprValue(e[3], j))
      [] e[1] = "Sub" -> fsub(ExprValue(e[2], j), ExprValue(e[3], j))
      [] e[1] = "Mul" -> fmul(ExprValue(e[2], j), ExprValue(e[3], j))

\* the partial sums have been computed
TermsComputed == lpc \notin {"counters", "combiner", "beta", "terms"}

\* no denominator is zero, in Env::create or in the constraints
NoZeroDenominator ==
    /\ \A k \in 1 .. Len(lookups) : \A i \in 1 .. Len(lookups[k].f) : \A j \in RowSet :
          lookup_denominator(lookups[k].f[i][j], vector_lookup_combiner, beta) # 0
    /\ \A k \in 1 .. Len(lookups) : \A j \in RowSet :
          ExprValue(denominator_expr(table_lookup(lookups[k].table_id)), j) # 0

\* the partial-sum constraints of the list, with their columns
ChunkConstraintsOf(ls) ==
    TableConstraints(LookupsMapOf(ls), SortedKeys(DOMAIN LookupsMapOf(ls)))

\* every constraint of the sequence is zero on every row
AllZero(cs) ==
    \A c \in 1 .. Len(cs) : \A j \in RowSet : ExprValue(cs[c].constraint, j) = 0

\* the constraints and Env::create cut the lookups of each table into the
\* same number of chunks
SameChunks(cs) ==
    \A id \in DOMAIN lookup_terms_map :
        Cardinality({c \in 1 .. Len(cs) : cs[c].col[2] = id})
          = Len(lookup_terms_map[id])

\* C20: for every table, chunk and row, and provided no denominator is
\* zero, the partial-sum column computed by Env::create satisfies the
\* constraint constraint_lookups emits for that chunk of that table, both
\* cutting the lookups into the same chunks and using the same denominators.
C20_PartialSumsSatisfyConstraints ==
    (TermsComputed /\ DistinctTables /\ NoZeroDenominator) =>
        /\ SameChunks(ChunkConstraintsOf(lookups))
        /\ AllZero(ChunkConstraintsOf(lookups))

\* every value of the list is a single scalar
ScalarValues ==
    \A k \in 1 .. Len(lookups) : \A i \in 1 .. Len(lookups[k].f) : \A j \in RowSet :
        Len(lookups[k].f[i][j].value) = 1

\* the same for the tables whose values are single scalars
C20_ScalarTables ==
    (TermsComputed /\ DistinctTables /\ NoZeroDenominator /\ ScalarValues) =>
        /\ SameChunks(ChunkConstraintsOf(lookups))
        /\ AllZero(ChunkConstraintsOf(lookups))


\* the constraints of the list with the aggregation constraint, the last one
ConstraintsOf(ls) == constraint_lookups(LookupsMapOf(ls))[2]

\* the aggregation has been computed and the assertion on it has passed
AggregationComputed == lpc \in {"absorb_aggregation", "done"}

\* the aggregation constraint is zero on every row
AggregationHolds(cs) == \A j \in RowSet : ExprValue(cs[Len(cs)], j) = 0

RECURSIVE NumeratorValue(_, _)
NumeratorValue(e, m) ==
    CASE e[1] = "Lit" -> e[2]
      [] e[1] = "Cell" -> m
      [] e[1] = "Neg" -> fneg(NumeratorValue(e[2], m))

\* the list is the reads, each as it was, and then the term of the table,
\* whose numerator is the negated multiplicity
TableTermLast(list, reads, id) ==
    /\ Len(list) = Len(reads) + 1
    /\ \A i \in 1 .. Len(reads) : list[i] = reads[i]
    /\ list[Len(list)].table_id = id
    /\ list[Len(list)].value = <<curr_cell(<<"LookupFixedTable", id>>)>>
    /\ \A m \in LF : NumeratorValue(list[Len(list)].numerator, m) = fneg(m)

\* C22: in every list of lookups built for a table, by constraint_lookups
\* and by the serialization circuit's constrain_lookups, the table's own
\* term is the last element and its numerator is the negated multiplicity,
\* while every read keeps its own numerator.
C22_TableTermLast ==
    /\ Returned("constraint_lookups") =>
          \A id \in DOMAIN call.lookups_map :
              TableTermLast(lookups_with_table(call.lookups_map, id),
                            call.lookups_map[id], id)
    /\ ReturnedOk("constrain_lookups") =>
          /\ TableTermLast(ret[2][2].self.rangecheck4_lookups,
                           call.self.rangecheck4_lookups, "RangeCheck4")
          /\ TableTermLast(ret[2][2].self.rangecheck15_lookups,
                           call.self.rangecheck15_lookups, "RangeCheck15")

\* the same for constraint_lookups alone
C22_LogupTableTermLast ==
    Returned("constraint_lookups") =>
        \A id \in DOMAIN call.lookups_map :
            TableTermLast(lookups_with_table(call.lookups_map, id),
                          call.lookups_map[id], id)


LookupColumnKinds ==
    {"LookupPartialSum", "LookupAggregation", "LookupMultiplicity", "LookupFixedTable"}

\* the environment's parameters agree with its witness
WellFormedEnv(e) == e.N = e.N_REL + e.N_SEL /\ e.N = Len(e.witness)

\* C23: get_column aborts for each of the four kinds of lookup column when
\* the environment was built without a lookup, with "No lookup provided"
\* when the environment is otherwise well formed; it returns neither None nor
\* a witness column.
C23_NoLookupAborts ==
    (Returned("get_column") /\ call.self.lookup = <<"None">>
        /\ call.col[1] \in LookupColumnKinds) =>
        /\ IsAbort(ret[2])
        /\ WellFormedEnv(call.self) => ret[2] = Abort("No lookup provided")

\* C23 witness: the aggregation column was asked of a well-formed
\* environment without lookup, and the call has aborted
C23_Witness ==
    /\ Returned("get_column") /\ call.self.lookup = <<"None">>
    /\ WellFormedEnv(call.self) /\ call.self.N = 2
    /\ call.col = <<"LookupAggregation">>
    /\ IsAbort(ret[2])


\* what fold_instance_pair returns for the relaxed instances of the fold
\* that has returned and the error commitments it returned
InstancesOnly ==
    fold_instance_pair(sponge, relaxable_instance_relax(a[1], zero_commitment),
                       relaxable_instance_relax(b[1], zero_commitment),
                       error_commitments)

\* C24: given the two relaxed instances of a fold and the error commitments
\* the fold returned, fold_instance_pair returns an instance with the same
\* u, the same error commitment and the same extended commitments as the
\* instance the fold returned.
C24_InstancesOnlyAgrees ==
    Done =>
        /\ InstancesOnly.u = instance.u
        /\ InstancesOnly.error_commitment = instance.error_commitment
        /\ InstancesOnly.extended_instance.extended
              = instance.extended_instance.extended

\* C24, the slack and the error commitment alone
C24_SameSlackAndError ==
    Done =>
        /\ InstancesOnly.u = instance.u
        /\ InstancesOnly.error_commitment = instance.error_commitment

\* C24, for instances that carry their extended commitments already, being
\* both outputs of a fold
C24_AgreesOnFoldedInputs ==
    (Done /\ from_fold = <<TRUE, TRUE>>) => InstancesOnly = instance


\* the error commitment of a relaxed instance is the commitment of the error
\* vector of its witness
ErrorCommitted(pair) ==
    pair[1].error_commitment = commit_evaluations_non_hiding(pair[2].error_vec)

\* C25: the commitment being linear, the error commitment of the accumulated
\* instance is the commitment of the error vector of the accumulated witness
\* after any sequence of folds from freshly relaxed pairs: it holds for both
\* relaxed inputs of every fold, and for the output, the instance side having
\* received the commitments of the error terms and the challenge the witness
\* side received.
C25_ErrorCommitmentTracksVector ==
    /\ pc \notin {"idle"} => ErrorCommitted(env[1]) /\ ErrorCommitted(env[2])
    /\ Done => ErrorCommitted(<<instance, witness>>)

\* C25 witness: a fold of an accumulator has returned, both error terms of
\* the fold and the accumulated error vector being nonzero
C25_Witness ==
    /\ Done /\ from_fold[2]
    /\ env[2][2].error_vec # ZeroVec
    /\ error[1] # ZeroVec /\ error[2] # ZeroVec
    /\ witness.error_vec # ZeroVec
    /\ challenge \notin {0, 1}


\* the value of a leaf at a row, a constant being the same on every row
LeafAt(leaf, i) == IF leaf[1] = "Const" THEN leaf[2] ELSE leaf[2][i]

\* the leaf a call returned is, row by row, this operation of its operands
RowWise(f) ==
    \A i \in RowSet :
        LeafAt(ret[2], i) = apply_op(f, LeafAt(call.lhs, i), LeafAt(call.rhs, i))

\* C26: for every combination of operand variants on the left and on the
\* right, a - b on EvalLeaf is at every row the value of the left operand
\* minus the value of the right operand.
C26_SubRowWise == Returned("sub") => RowWise("sub")

\* C26, but for a column on the left of a result
C26_SubRowWiseButColResult ==
    (Returned("sub") /\ <<call.lhs[1], call.rhs[1]>> # <<"Col", "Result">>)
        => RowWise("sub")

\* a column minus a result is the result minus the column
C26_ColResultReversed ==
    (Returned("sub") /\ <<call.lhs[1], call.rhs[1]>> = <<"Col", "Result">>)
        => \A i \in RowSet :
              LeafAt(ret[2], i) = sub(LeafAt(call.rhs, i), LeafAt(call.lhs, i))

\* sums and products are row-wise for every combination of variants
C26_AddMulRowWise ==
    /\ Returned("add") => RowWise("add")
    /\ Returned("mul") => RowWise("mul")


\* assignments of values to the cells
TermValues == [WitnessCols \cup FixedCols -> {0, 2, 3}]

\* the sum of the values of the first n terms, each with its sign
RECURSIVE SignedSum(_, _, _)
SignedSum(terms, n, val) ==
    IF n = 0 THEN 0
    ELSE SignedSum(terms, n - 1, val)
         + (IF terms[n].sign = "Pos" THEN 1 ELSE -1) * IntValue(terms[n].exp, val)

\* C27: for every FoldingExp e and every assignment of values to its cells,
\* the signed sum of the values of the terms extract_terms(e) returns is
\* the value of e.
C27_TermsKeepValue ==
    Returned("extract_terms") =>
        \A val \in TermValues :
            SignedSum(ret[2], Len(ret[2]), val) = IntValue(call.exp, val)

\* C27 witness: the terms of a product of two differences have been
\* returned, two of the four negative
C27_Witness ==
    /\ Returned("extract_terms")
    /\ call.exp[1] = "Mul" /\ call.exp[2][1] = "Sub" /\ call.exp[3][1] = "Sub"
    /\ Len(ret[2]) = 4
    /\ Cardinality({k \in 1 .. 4 : ret[2][k].sign = "Neg"}) = 2


\* steps of a hash of n blocks, the squeeze included
StepsOf(n) == (ROUNDS + 1) * n + 1

\* the k-th step of a hash of n blocks, counted from one: each block is an
\* absorb and the rounds in increasing order, the squeeze follows the last
\* block and None the squeeze
IsStep(step, k, n) ==
    CASE k > StepsOf(n) -> step = <<"None">>
      [] k = StepsOf(n) -> step = SqueezeStep
      [] (k - 1) % (ROUNDS + 1) = 0 ->
            step[1] = "Some" /\ step[2][1] = "Sponge" /\ step[2][2][1] = "Absorb"
      [] OTHER -> step = RoundStep(((k - 1) % (ROUNDS + 1)) - 1)

\* C28: from an absorb with n >= 1 blocks left, the step updates visit for
\* each block one absorb and the rounds 0 to 23 in increasing order, then
\* one squeeze, and reach None after 25 * n + 1 updates; an update in None
\* aborts.
C28_StepOrder ==
    curr_step # <<>> =>
        /\ \A k \in 1 .. Len(visited) : IsStep(visited[k], k, blocks)
        /\ IsStep(curr_step, Len(visited) + 1, blocks)
           \/ (IsAbort(update_ret) /\ curr_step = <<"None">>)
        /\ curr_step = <<"None">> <=> Len(visited) >= 25 * blocks + 1
        /\ Len(visited) <= 25 * blocks + 2
        /\ (update_ret # <<>> /\ IsAbort(update_ret))
              <=> Len(visited) = 25 * blocks + 2
        /\ (curr_step[1] = "Some" /\ curr_step[2][1] = "Round")
              => blocks_left_to_absorb >= 1

\* C28 witness: a hash of two blocks has reached None, and the update after
\* it has aborted
C28_Witness ==
    /\ blocks = 2 /\ curr_step = <<"None">>
    /\ Len(visited) = 52
    /\ update_ret = Abort("No step to update")


\* every relation column of the instruction holds this many rows
RelationRows(instr, n) ==
    \A i \in 1 .. N_MIPS_REL_COLS : Len(trace.witness[instr][i]) = n

WitnessRowSum(w, j) ==
    LET terms == partial_sums(w.f, vector_lookup_combiner, beta)
    IN  AddTerms(0, terms, Len(terms), j)

\* the sum on row j of the partial sums of the first k witnesses of the list
RECURSIVE ListRowSum(_, _)
ListRowSum(k, j) ==
    IF k = 0 THEN 0 ELSE fadd(ListRowSum(k - 1, j), WitnessRowSum(lookups[k], j))

\* the sum of the partial sums of every witness on the first i rows
RECURSIVE ListSumUpTo(_)
ListSumUpTo(i) ==
    IF i = 0 THEN 0
    ELSE fadd(ListSumUpTo(i - 1), ListRowSum(Len(lookups), i))

\* every witness of the list is accumulated once
AccumulatesEveryWitness ==
    /\ TermsComputed => \A j \in RowSet : InnerSums(j) = ListRowSum(Len(lookups), j)
    /\ AggregationComputed =>
          \A i \in RowSet : lookup_aggregation[i] = ListSumUpTo(i - 1)

\* C30: the running sum of Env::create accumulates the inner sums of every
\* LogupWitness of the list, each once; no witness's terms are dropped or
\* replaced, also when two witnesses carry the same table id.
C30_EveryWitnessAccumulated == AccumulatesEveryWitness

\* C30 for lists whose witnesses are each for a table of its own
C30_DistinctTablesAccumulated == DistinctTables => AccumulatesEveryWitness

\* of the reads and the writes of a table passed as two witnesses, which
\* cancel on every row, the map holds the partial sums of the second only
C30_SplitTableKeepsLast ==
    (lookups \in SplitInputs /\ TermsComputed) =>
        /\ \A j \in RowSet : ListRowSum(Len(lookups), j) = 0
        /\ lookup_terms_map =
              MapInsert(<<>>, 2, partial_sums(lookups[2].f, vector_lookup_combiner, beta))

=============================================================================
